---- MODULE Spec2Model ----
(***************************************************************************)
(* Day-synchronised arena scheduler (ArenaManager.run_arena_parallel), the *)
(* per-agent eight-node trading pipeline (LangGraphTradingAgent) and the   *)
(* update callback that writes the durable log (arena_api.run_arena).      *)
(*                                                                         *)
(* Money is an integer number of 1/10000 yuan, so that the fee rates       *)
(* 0.0003 and 0.001 are exact on every total amount * price with a price   *)
(* in whole yuan.  The source computes in binary floating point.           *)
(***************************************************************************)
EXTENDS Integers, Sequences, FiniteSets, TLC

\* ------------------------------------------------------------ bounds ----
\* Number of trade dates returned by _get_trade_dates(start_date, end_date).
NumDays == 2

\* ------------------------------------------------- program constants ----
MoneyScale == 10000
InitialCapital == 10000 * MoneyScale
MinCommission == 5 * MoneyScale
MinCashToBuy == 500 * MoneyScale
MaxHoldings == 5
StopLossPct == 5
StopProfitPct == 15

Agents == {"a1", "a2"}
Codes == {"X", "Y"}
CodeOrder == <<"U", "V", "W", "X", "Y", "Z">>

\* The market tape: close of a code on the d-th trade date, in whole yuan;
\* 0 stands for "no bar" (get_daily_price returns nothing, or close = 0).
\* Every code but Y trades at the prices of X.
Close(code, d) ==
    LET k == ((d - 1) % 3) + 1
    IN  IF code = "Y" THEN (IF k = 1 THEN 20 ELSE IF k = 2 THEN 0 ELSE 21)
        ELSE (IF k = 1 THEN 10 ELSE 12)

\* What the LLM may answer: sell decisions (codes) and buy decisions
\* (code, suggested_amount), already past the confidence filter.
SellLists == {<<>>, <<"X">>, <<"Y", "Y">>}
BuyDec(c, n) == [code |-> c, suggested_amount |-> n]
BuyLists ==
    { <<>>,
      <<BuyDec("X", 400)>>,
      <<BuyDec("X", 500)>>,
      <<BuyDec("Y", 150), BuyDec("Y", 100)>> }

Nodes == <<"update_prices", "evaluate_holdings", "execute_sells",
           "find_candidates", "analyze_candidates", "execute_buys",
           "record_daily", "reflect">>
NodeSet == {Nodes[i] : i \in 1..Len(Nodes)}

VARIABLES
    shouldStop,          \* arena_api._should_stop
    schedPc,             \* position of run_arena_parallel
    dayIdx,              \* 1-based index of trade_date in trade_dates
    notDone,             \* not_done of the primary wait
    agent_states,        \* agent_states[name]: completed, error
    agent_errors,        \* agent_errors of the current date
    taskPc,              \* position of each agent's worker thread
    taskDate,            \* trade date the worker was submitted for
    taskError,           \* the future's result: "none" or the error
    cash, holdings, total_assets, trade_history, daily_assets,  \* agent attributes
    st,                  \* the TradingState values not shared with the agent
    pre_state,           \* run_single_day's pre_state
    pre_exec,            \* run_agent_one_day's pre_exec_assets / pre_exec_daily_assets
    saved_trade_counts, saved_daily_counts,   \* run_arena closure counters
    dbTrades, dbDaily,   \* arena_trades, arena_daily_assets rows of the session
    dbHoldings,          \* arena_holdings rows of the session
    session,             \* arena_sessions row: current_date, status
    \* history of the run, read by the properties only
    submitted,           \* date -> agents a task was submitted for
    returnedDays,        \* agent -> dates whose task has returned
    severeDays,          \* agent -> dates declared severely timed out
    failedDays,          \* agent -> dates whose pipeline raised
    stoppedMid,          \* agent -> dates on which stop arrived mid-pipeline
    dayStart,            \* agent -> the portfolio as it was when the task began
    start_date,          \* run_arena's start_date after a session was resumed
    rollbackTo,          \* agent -> target of the rollback_to_date that just ran
    \* BaostockProviderV2, for one key (ts_code, trade_date)
    thPc,                \* position of each thread inside get_daily_price
    thEvent,             \* the local variable event of each call
    thMine,              \* the local variable is_my_query of each call
    thRows,              \* what the call's upstream query returned
    thRet,               \* the value the call returned
    daily_cache,         \* _daily_cache[key], or NotCached
    pending_queries,     \* _pending_queries[key], or NoEvent
    eventSet,            \* the events whose flag is set
    fetches,             \* the upstream queries issued so far, in order
    waitTimedOut,        \* some event.wait(timeout=30.0) returned False
    \* agent_principles table and the connections that use it
    agent_principles,    \* the committed rows
    txOwner,             \* agent whose save_agent_reflection holds the write lock
    txRows,              \* the rows as the open write transaction sees them
    txTodo,              \* trading_principles still to insert
    reflCount,           \* agent -> reflections saved or being saved
    observed,            \* agent -> what its last get_agent_principles saw
    ranking_context,     \* agent -> agent_ranking_context of its running task
    \* BaostockProviderV2's candidate pools
    stock_whitelist,         \* _stock_whitelist
    preloaded_daily_dates,   \* _preloaded_daily_dates[trade_date], or NoStatus
    candidate_pool_by_date,  \* _candidate_pool_by_date[trade_date], or NoPool
    poolClock,               \* the clock generated_at is read from
    poolCall,                \* thread -> its call of preload_daily_data / get_candidate_pool
    \* one LLM node of an agent's pipeline and the buy that follows it
    llmCall,                 \* agent -> the retry loop of the node
    buyFlow                  \* agent -> the decision on its way to the arena_trades row

vars == <<shouldStop, schedPc, dayIdx, notDone, agent_states, agent_errors,
          taskPc, taskDate, taskError, cash, holdings, total_assets,
          trade_history, daily_assets, st, pre_state, pre_exec,
          saved_trade_counts, saved_daily_counts, dbTrades, dbDaily, session,
          submitted, returnedDays, severeDays, failedDays, stoppedMid, dayStart,
          dbHoldings, start_date, rollbackTo,
          thPc, thEvent, thMine, thRows, thRet, daily_cache, pending_queries,
          eventSet, fetches, waitTimedOut,
          agent_principles, txOwner, txRows, txTodo, reflCount, observed,
          ranking_context,
          stock_whitelist, preloaded_daily_dates, candidate_pool_by_date,
          poolClock, poolCall, llmCall, buyFlow>>

schedVars == <<schedPc, dayIdx, notDone, agent_states, agent_errors>>
agentVars == <<cash, holdings, total_assets, trade_history, daily_assets>>
taskVars == <<taskPc, taskDate, taskError, st, pre_state, pre_exec>>
dbVars == <<saved_trade_counts, saved_daily_counts, dbTrades, dbDaily, session,
           dbHoldings>>
histVars == <<submitted, returnedDays, severeDays, failedDays, stoppedMid, dayStart>>
startupVars == <<start_date, rollbackTo>>
providerVars == <<thPc, thEvent, thMine, thRows, thRet, daily_cache,
                 pending_queries, eventSet, fetches, waitTimedOut>>
principleVars == <<agent_principles, txOwner, txRows, txTodo, reflCount, observed>>
poolVars == <<stock_whitelist, preloaded_daily_dates, candidate_pool_by_date,
             poolClock, poolCall>>
llmVars == <<llmCall, buyFlow>>
serviceVars == <<providerVars, principleVars, poolVars, llmVars>>
arenaVars == <<shouldStop, schedVars, agentVars, taskVars, dbVars, histVars,
              startupVars, ranking_context>>
NoRanking == <<>>

\* The threads that call get_daily_price for the same key
Threads == {"t1", "t2", "t3"}
NoEvent == "none"
NotCached == "absent"
NoWriter == "none"
NotRead == [had |-> FALSE, sets |-> {}, rows |-> 0, read |-> FALSE]

\* the agent_principles table holds rows; no connection is open
PrincipleInit(rows) ==
    /\ agent_principles = rows
    /\ txOwner = NoWriter
    /\ txRows = <<>>
    /\ txTodo = 0
    /\ reflCount = [a \in Agents |->
                       Cardinality({rows[i].reflection : i \in
                                      {j \in DOMAIN rows : rows[j].model_name = a}})]
    /\ observed = [a \in Agents |-> NotRead]

\* BaostockProviderV2.__init__
ProviderInit ==
    /\ thPc = [t \in Threads |-> "idle"]
    /\ thEvent = [t \in Threads |-> NoEvent]
    /\ thMine = [t \in Threads |-> FALSE]
    /\ thRows = [t \in Threads |-> "unset"]
    /\ thRet = [t \in Threads |-> "unset"]
    /\ daily_cache = NotCached
    /\ pending_queries = NoEvent
    /\ eventSet = {}
    /\ fetches = <<>>
    /\ waitTimedOut = FALSE

\* The trade dates a candidate pool is asked for
PoolDates == {1, 2}
NoStatus == "none"
NoPool == [source |-> "absent", generated_at |-> 0, candidates |-> {}]
Fallback == [source |-> "fallback", generated_at |-> 0, candidates |-> {}]
\* the whitelist _load_basic_info builds when the stock list can be loaded
LoadedWhitelist == {"s1", "s2"}
NoCall == [pc |-> "idle", date |-> 0, via |-> "none", got |-> NoPool,
           after |-> FALSE, noop |-> FALSE]

\* BaostockProviderV2.__init__: no date preloaded, no pool published
PoolInit ==
    /\ preloaded_daily_dates = [d \in PoolDates |-> NoStatus]
    /\ candidate_pool_by_date = [d \in PoolDates |-> NoPool]
    /\ poolClock = 0
    /\ poolCall = [t \in Threads |-> NoCall]

Nothing == [kind |-> "nothing"]
NoLlmCall == [pc |-> "idle", node |-> "none", attempt |-> 0, invokes |-> 0,
              failed |-> 0, slept |-> <<>>, outcome |-> "none"]
NoBuyFlow == [answer |-> Nothing, decision |-> Nothing, holding |-> Nothing,
              trade |-> Nothing, row |-> Nothing]

\* no LLM node is running and nothing has been decided
LlmInit ==
    /\ llmCall = [a \in Agents |-> NoLlmCall]
    /\ buyFlow = [a \in Agents |-> NoBuyFlow]

\* the provider as constructed and an agent_principles table without rows
ServiceInit ==
    /\ ProviderInit
    /\ PoolInit
    /\ LlmInit
    /\ stock_whitelist = LoadedWhitelist
    /\ PrincipleInit(<<>>)

\* ----------------------------------------------------------- helpers ----
Max(a, b) == IF a >= b THEN a ELSE b
Min(a, b) == IF a <= b THEN a ELSE b

RECURSIVE SumOver(_, _)
SumOver(S, f) ==
    IF S = {} THEN 0
    ELSE LET x == CHOOSE y \in S : TRUE IN f[x] + SumOver(S \ {x}, f)

\* sum(h['amount'] * h['current_price'] for h in holdings.values())
HoldingsValue(h) ==
    SumOver(DOMAIN h, [c \in DOMAIN h |-> h[c].amount * h[c].current_price * MoneyScale])

NoState == [cash |-> 0, total_assets |-> 0, sells |-> <<>>, buys |-> <<>>,
            candidates |-> {}]
NoSnapshot == [cash |-> 0, holdings |-> <<>>, total_assets |-> 0,
               trade_history |-> <<>>, daily_assets |-> <<>>]
NoPreExec == [assets |-> 0, daily_assets |-> <<>>]

Portfolio(a) == [cash |-> cash[a], holdings |-> holdings[a],
                 total_assets |-> total_assets[a],
                 trade_history |-> trade_history[a],
                 daily_assets |-> daily_assets[a]]

\* ------------------------------------------------ node 1: update_prices ----
\* One holding after the loop body of _update_holdings_prices: a positive
\* close replaces current_price (and repairs a zero cost); hold_days advances
\* whether or not a price was found.
UpdatedHolding(hld, close) ==
    IF close > 0
    THEN [hld EXCEPT !.current_price = close,
                     !.cost = IF hld.cost > 0 THEN hld.cost ELSE close,
                     !.hold_days = hld.hold_days + 1]
    ELSE [hld EXCEPT !.hold_days = hld.hold_days + 1]

UpdatedHoldings(h, d) == [c \in DOMAIN h |-> UpdatedHolding(h[c], Close(c, d))]

\* ------------------------------------------- node 2: evaluate_holdings ----
\* profit_pct on a holding is (current_price - cost) / cost * 100, written by
\* update_prices and 0 at the buy (where current_price = cost).
ForcedSell(hld) ==
    \/ (hld.current_price - hld.cost) * 100 <= -(StopLossPct * hld.cost)
    \/ (hld.current_price - hld.cost) * 100 >= StopProfitPct * hld.cost

\* forced_sells, in the order of the holdings (modelled as CodeOrder)
ForcedSells(h) == SelectSeq(CodeOrder, LAMBDA c : c \in DOMAIN h /\ ForcedSell(h[c]))

\* fixed_decisions: answers naming a code that is not held are dropped
FixedDecisions(decs, h) == SelectSeq(decs, LAMBDA c : c \in DOMAIN h)

\* ----------------------------------------------- node 3: execute_sells ----
CommissionOf(total) == Max((total * 3) \div 10000, MinCommission)
StampTaxOf(total) == total \div 1000
NetIncome(total) == total - CommissionOf(total) - StampTaxOf(total)

\* T+1 check of _execute_sells
TPlusOneBlocked(hld) == hld.hold_days = 0

SellTrade(d, code, hld) ==
    LET sell_amount == hld.amount * hld.current_price * MoneyScale
    IN  [date |-> d, action |-> "sell", code |-> code, amount |-> hld.amount,
         price |-> hld.current_price, total |-> sell_amount,
         commission |-> CommissionOf(sell_amount) + StampTaxOf(sell_amount)]

RECURSIVE SellLoop(_, _, _, _, _, _)
SellLoop(decs, processed, h, c, th, d) ==
    IF decs = <<>> THEN [holdings |-> h, cash |-> c, trade_history |-> th]
    ELSE LET code == Head(decs)
             rest == Tail(decs)
         IN  IF code \in processed THEN SellLoop(rest, processed, h, c, th, d)
             ELSE IF code \notin DOMAIN h
                  THEN SellLoop(rest, processed \cup {code}, h, c, th, d)
             ELSE IF TPlusOneBlocked(h[code])
                  THEN SellLoop(rest, processed \cup {code}, h, c, th, d)
             ELSE LET t == SellTrade(d, code, h[code])
                  IN  SellLoop(rest, processed \cup {code},
                               [k \in DOMAIN h \ {code} |-> h[k]],
                               c + NetIncome(t.total),
                               Append(th, t), d)

\* ------------------------------------------------ node 6: execute_buys ----
BuyTrade(d, code, amount, price) ==
    LET stock_cost == amount * price * MoneyScale
    IN  [date |-> d, action |-> "buy", code |-> code, amount |-> amount,
         price |-> price, total |-> stock_cost,
         commission |-> CommissionOf(stock_cost)]

NewHolding(d, amount, price) ==
    [amount |-> amount, cost |-> price, current_price |-> price,
     hold_days |-> 0, buy_date |-> d]

RECURSIVE BuyLoop(_, _, _, _, _, _, _)
BuyLoop(decs, processed, h, c, th, ta, d) ==
    IF decs = <<>> THEN [holdings |-> h, cash |-> c, trade_history |-> th]
    ELSE LET code == Head(decs).code
             rest == Tail(decs)
             price == Close(code, d)
             max_amount == IF price > 0
                           THEN (c \div (price * MoneyScale * 100)) * 100 ELSE 0
             amount == (Min(Head(decs).suggested_amount, max_amount) \div 100) * 100
             t == BuyTrade(d, code, amount, price)
             total_cost == t.total + t.commission
         IN  IF code \in processed THEN BuyLoop(rest, processed, h, c, th, ta, d)
             ELSE IF \/ price <= 0
                     \/ amount < 100
                     \/ total_cost > c
                     \/ t.total * 5 > ta * 2
                  THEN BuyLoop(rest, processed \cup {code}, h, c, th, ta, d)
             ELSE BuyLoop(rest, processed \cup {code},
                          [k \in DOMAIN h \cup {code} |->
                              IF k = code THEN NewHolding(d, amount, price) ELSE h[k]],
                          c - total_cost, Append(th, t), ta, d)

\* The two gates checked once, before the loop
BuyGateClosed(h, c) ==
    \/ Cardinality(DOMAIN h) >= MaxHoldings
    \/ c < InitialCapital \div 20

\* ------------------------------------------------ node 7: record_daily ----
\* Variant: the point is stamped with the first trade date
DailyRecord_FirstDate(d, c, h) ==
    [date |-> 1, total_assets |-> c + HoldingsValue(h), cash |-> c]
DailyRecord(d, c, h) ==
    [date |-> d, total_assets |-> c + HoldingsValue(h), cash |-> c]

\* ---------------------------------------- run_agent_one_day, on failure ----
\* daily_asset_entry built from the values saved before the day
\* Variant: the entry carries the cash instead of the value saved before the day
ContinuityEntry_Cash(d, preAssets, c) ==
    [date |-> d, total_assets |-> c, cash |-> c]
ContinuityEntry(d, preAssets, c) ==
    [date |-> d, total_assets |-> preAssets, cash |-> c]

\* "update the existing entry of that date, else append"
PutDaily(dl, e) ==
    IF \E i \in 1..Len(dl) : dl[i].date = e.date
    THEN [i \in 1..Len(dl) |->
             IF i = (CHOOSE j \in 1..Len(dl) :
                       dl[j].date = e.date /\ \A k \in 1..(j-1) : dl[k].date # e.date)
             THEN e ELSE dl[i]]
    ELSE Append(dl, e)

\* ------------------------------------- update_callback (durable log) ----
\* A trade loaded from arena_trades has no 'date', 'code' or 'total' key and
\* .get gives None for them; its 'time' keeps it apart from the other rows,
\* which the row's trade_date and stock_code stand for here.
TradeKey(t) ==
    IF "date" \in DOMAIN t
    THEN <<t.date, t.code, t.action, t.price, t.amount, t.total>>
    ELSE <<t.trade_date, t.stock_code, t.action, t.price, t.amount, "None">>

\* _dedupe_trades: first occurrence of each key, order kept (the key's time
\* field is not modelled: one code is traded at most once per node run).
RECURSIVE DedupeTrades(_, _)
DedupeTrades(trades, seen) ==
    IF trades = <<>> THEN <<>>
    ELSE IF TradeKey(Head(trades)) \in seen
         THEN DedupeTrades(Tail(trades), seen)
         ELSE <<Head(trades)>> \o
              DedupeTrades(Tail(trades), seen \cup {TradeKey(Head(trades))})

\* new_trades = trade_history[saved_count:]
NewTrades(a, th) ==
    LET dd == DedupeTrades(th, {})
    IN  SubSeq(dd, saved_trade_counts[a] + 1, Len(dd))

\* new_daily = daily_list[saved_count:]
\* (variant: the callback finds no new daily point to save)
NewDaily_None(a, dl) == <<>>
NewDaily(a, dl) == SubSeq(dl, saved_daily_counts[a] + 1, Len(dl))

\* INSERT OR IGNORE INTO arena_daily_assets, row by row
RECURSIVE InsertOrIgnore(_, _)
InsertOrIgnore(rows, new) ==
    IF new = <<>> THEN rows
    ELSE InsertOrIgnore(
            IF \E i \in 1..Len(rows) : rows[i].date = Head(new).date
            THEN rows
            ELSE Append(rows, [date |-> Head(new).date,
                               assets |-> Head(new).total_assets]),
            Tail(new))

\* trade_data: code -> stock_code, amount -> volume, total -> amount
TradeRow(t) ==
    [trade_date |-> t.date, stock_code |-> t.code, action |-> t.action,
     price |-> t.price, volume |-> t.amount, amount |-> t.total,
     commission |-> t.commission]
TradeRows(ts) == [i \in DOMAIN ts |-> TradeRow(ts[i])]

\* save_holdings: avg_price <- cost, with amount, current_price, hold_days
HoldingRow(hld) ==
    [amount |-> hld.amount, avg_price |-> hld.cost,
     current_price |-> hld.current_price, hold_days |-> hld.hold_days]
HoldingRows(h) == [c \in DOMAIN h |-> HoldingRow(h[c])]

\* update_callback with a trade_history, a daily_assets list and the holdings
\* of agent a
UpdateCallback(a, th, dl, h) ==
    /\ dbTrades' = [dbTrades EXCEPT ![a] = @ \o TradeRows(NewTrades(a, th))]
    /\ dbHoldings' = [dbHoldings EXCEPT ![a] = HoldingRows(h)]
    /\ saved_trade_counts' =
          [saved_trade_counts EXCEPT ![a] = @ + Len(NewTrades(a, th))]
    /\ dbDaily' = [dbDaily EXCEPT ![a] = InsertOrIgnore(@, NewDaily(a, dl))]
    /\ saved_daily_counts' = [saved_daily_counts EXCEPT ![a] = Len(dl)]
    /\ session' = IF NewDaily(a, dl) = <<>> THEN session
                  ELSE [session EXCEPT
                           !.current_date = NewDaily(a, dl)[Len(NewDaily(a, dl))].date]

\* ---------------------------------------------------------------- Init ----
\* run_arena_parallel entered with fresh agents and an empty session
ArenaInit ==
    /\ shouldStop = FALSE
    /\ schedPc = "loop_top"
    /\ dayIdx = 1
    /\ notDone = {}
    /\ agent_states = [a \in Agents |-> [completed |-> FALSE, error |-> "none"]]
    /\ agent_errors = [a \in Agents |-> "none"]
    /\ taskPc = [a \in Agents |-> "none"]
    /\ taskDate = [a \in Agents |-> 0]
    /\ taskError = [a \in Agents |-> "none"]
    /\ cash = [a \in Agents |-> InitialCapital]
    /\ holdings = [a \in Agents |-> <<>>]
    /\ total_assets = [a \in Agents |-> InitialCapital]
    /\ trade_history = [a \in Agents |-> <<>>]
    /\ daily_assets = [a \in Agents |-> <<>>]
    /\ st = [a \in Agents |-> NoState]
    /\ pre_state = [a \in Agents |-> NoSnapshot]
    /\ pre_exec = [a \in Agents |-> NoPreExec]
    /\ saved_trade_counts = [a \in Agents |-> 0]
    /\ saved_daily_counts = [a \in Agents |-> 0]
    /\ dbTrades = [a \in Agents |-> <<>>]
    /\ dbDaily = [a \in Agents |-> <<>>]
    /\ dbHoldings = [a \in Agents |-> <<>>]
    /\ start_date = 1
    /\ rollbackTo = [a \in Agents |-> 0]
    /\ session = [current_date |-> 0, status |-> "running"]
    /\ submitted = [d \in 1..NumDays |-> {}]
    /\ returnedDays = [a \in Agents |-> {}]
    /\ severeDays = [a \in Agents |-> {}]
    /\ failedDays = [a \in Agents |-> {}]
    /\ stoppedMid = [a \in Agents |-> {}]
    /\ dayStart = [a \in Agents |-> NoSnapshot]
    /\ ranking_context = [a \in Agents |-> NoRanking]

Init == ArenaInit /\ ServiceInit

\* ------------------------------------------------ the scheduler's loop ----
\* A future is done when run_agent_one_day has returned.
\* Variant: a future counted as done as soon as its worker has started
FutureDone_Started(a) == taskPc[a] # "submitted"
FutureDone(a) == taskPc[a] = "returned"

\* active_agents: the agents whose state is not marked completed
\* Variant: agents with a recorded error are left out of the next date
ActiveAgents_Healthy ==
    {a \in Agents : ~agent_states[a].completed /\ agent_states[a].error = "none"}
ActiveAgents == {a \in Agents : ~agent_states[a].completed}

\* enumerate(trade_dates): the loop moves to the next trade date
\* Variant: the loop runs the same date again
NextDay_Same(d) == d
NextDay(d) == d + 1

\* "for future in done": the result of each finished future is recorded
RecordResults(done, errs) ==
    [a \in Agents |-> IF a \in done /\ taskError[a] # "none"
                      THEN taskError[a] ELSE errs[a]]
RecordStateErrors(done, states) ==
    [a \in Agents |-> IF a \in done /\ taskError[a] # "none"
                      THEN [states[a] EXCEPT !.error = taskError[a]]
                      ELSE states[a]]

\* Top of the loop: for ... in enumerate(trade_dates); should_stop() -> break.
\* trade_dates holds the dates 1..last
LoopTopUntil(last) ==
    /\ schedPc = "loop_top"
    /\ schedPc' = IF dayIdx > last \/ shouldStop THEN "loop_exit" ELSE "submit"
    /\ UNCHANGED <<shouldStop, dayIdx, notDone, agent_states, agent_errors>>
    /\ UNCHANGED <<taskVars, agentVars, dbVars, histVars>>
    /\ UNCHANGED <<startupVars, serviceVars, ranking_context>>
LoopTop == LoopTopUntil(NumDays)

\* Variant: completing the session also rewinds its progress to the start
CompleteSession_Rewind ==
    /\ schedPc = "loop_exit"
    /\ schedPc' = "finished"
    /\ session' = [status |-> "completed", current_date |-> 0]
    /\ UNCHANGED <<shouldStop, dayIdx, notDone, agent_states, agent_errors>>
    /\ UNCHANGED <<taskVars, agentVars, histVars>>
    /\ UNCHANGED <<saved_trade_counts, saved_daily_counts, dbTrades, dbDaily,
                   dbHoldings>>
    /\ UNCHANGED <<startupVars, serviceVars, ranking_context>>
\* run_arena_parallel has returned: MemoryStore.complete_current_session()
CompleteSession ==
    /\ schedPc = "loop_exit"
    /\ schedPc' = "finished"
    /\ session' = [session EXCEPT !.status = "completed"]
    /\ UNCHANGED <<shouldStop, dayIdx, notDone, agent_states, agent_errors>>
    /\ UNCHANGED <<taskVars, agentVars, histVars>>
    /\ UNCHANGED <<saved_trade_counts, saved_daily_counts, dbTrades, dbDaily,
                   dbHoldings>>
    /\ UNCHANGED <<startupVars, serviceVars, ranking_context>>

\* executor.submit(run_agent_one_day, ...) for every active agent
Submit ==
    /\ schedPc = "submit"
    /\ IF ActiveAgents = {}
       THEN /\ schedPc' = "loop_exit"
            /\ UNCHANGED <<taskPc, taskDate, taskError, agent_errors, submitted>>
       ELSE /\ schedPc' = "wait_primary"
            /\ taskPc' = [a \in Agents |-> IF a \in ActiveAgents
                                           THEN "submitted" ELSE taskPc[a]]
            /\ taskDate' = [a \in Agents |-> IF a \in ActiveAgents
                                             THEN dayIdx ELSE taskDate[a]]
            /\ taskError' = [a \in Agents |-> IF a \in ActiveAgents
                                              THEN "none" ELSE taskError[a]]
            /\ agent_errors' = [a \in Agents |-> "none"]
            /\ submitted' = [submitted EXCEPT ![dayIdx] = ActiveAgents]
    /\ UNCHANGED <<shouldStop, dayIdx, notDone, agent_states>>
    /\ UNCHANGED <<st, pre_state, pre_exec, agentVars, dbVars>>
    /\ UNCHANGED <<returnedDays, severeDays, failedDays, stoppedMid, dayStart>>
    /\ UNCHANGED <<startupVars, serviceVars, ranking_context>>

\* concurrent.futures.wait(all_futures, timeout=600, ALL_COMPLETED): returns
\* when every future is done, or at the timeout with whatever is done by then.
PrimaryWait ==
    /\ schedPc = "wait_primary"
    /\ LET done == {a \in submitted[dayIdx] : FutureDone(a)}
           late == submitted[dayIdx] \ done
       IN  /\ agent_errors' = RecordResults(done, agent_errors)
           /\ agent_states' = RecordStateErrors(done, agent_states)
           /\ notDone' = late
           /\ schedPc' = IF late = {} THEN "exit_executor" ELSE "wait_grace"
    /\ UNCHANGED <<shouldStop, dayIdx>>
    /\ UNCHANGED <<taskVars, agentVars, dbVars, histVars>>
    /\ UNCHANGED <<startupVars, serviceVars, ranking_context>>

\* wait(not_done, timeout=300, ALL_COMPLETED); what is still outstanding is
\* recorded as severely timed out, and 'completed' stays False.
GraceWait ==
    /\ schedPc = "wait_grace"
    /\ LET done == {a \in notDone : FutureDone(a)}
           late == notDone \ done
       IN  /\ agent_errors' =
                 [a \in Agents |-> IF a \in late THEN "severe_timeout"
                                   ELSE RecordResults(done, agent_errors)[a]]
           /\ agent_states' =
                 [a \in Agents |-> IF a \in late
                                   THEN [agent_states[a] EXCEPT !.error = "severe_timeout"]
                                   ELSE RecordStateErrors(done, agent_states)[a]]
           /\ severeDays' = [a \in Agents |-> IF a \in late
                                              THEN severeDays[a] \cup {dayIdx}
                                              ELSE severeDays[a]]
    /\ notDone' = {}
    /\ schedPc' = "exit_executor"
    /\ UNCHANGED <<shouldStop, dayIdx>>
    /\ UNCHANGED <<taskVars, agentVars, dbVars>>
    /\ UNCHANGED <<submitted, returnedDays, failedDays, stoppedMid, dayStart>>
    /\ UNCHANGED <<startupVars, serviceVars, ranking_context>>

\* End of "with ThreadPoolExecutor(...) as executor": __exit__ calls
\* shutdown(wait=True), which joins every worker; then the day's ranking is
\* printed and the loop takes the next trade date.
\* Variant: the executor is left without joining its workers
ExecutorExit_NoJoin ==
    /\ schedPc = "exit_executor"
    /\ schedPc' = "loop_top"
    /\ dayIdx' = NextDay(dayIdx)
    /\ UNCHANGED <<shouldStop, notDone, agent_states, agent_errors>>
    /\ UNCHANGED <<taskVars, agentVars, dbVars, histVars>>
    /\ UNCHANGED <<startupVars, serviceVars, ranking_context>>
ExecutorExit ==
    /\ schedPc = "exit_executor"
    /\ \A a \in submitted[dayIdx] : FutureDone(a)
    /\ schedPc' = "loop_top"
    /\ dayIdx' = NextDay(dayIdx)
    /\ UNCHANGED <<shouldStop, notDone, agent_states, agent_errors>>
    /\ UNCHANGED <<taskVars, agentVars, dbVars, histVars>>
    /\ UNCHANGED <<startupVars, serviceVars, ranking_context>>

\* --------------------------------------------- one agent's worker task ----
NextNode(pc) ==
    IF pc = "reflect" THEN "end"
    ELSE Nodes[(CHOOSE i \in 1..Len(Nodes) : Nodes[i] = pc) + 1]

Returned(a, err) ==
    /\ taskPc' = [taskPc EXCEPT ![a] = "returned"]
    /\ taskError' = [taskError EXCEPT ![a] = err]
    /\ returnedDays' = [returnedDays EXCEPT ![a] = @ \cup {taskDate[a]}]
    /\ st' = [st EXCEPT ![a] = NoState]
    /\ pre_state' = [pre_state EXCEPT ![a] = NoSnapshot]
    /\ ranking_context' = [ranking_context EXCEPT ![a] = NoRanking]

Step(a) == taskPc' = [taskPc EXCEPT ![a] = NextNode(taskPc[a])]

\* get_current_rankings: one entry per agent, read from the agent objects
RankEntry(p) == [total_assets |-> p.total_assets,
                 holdings_count |-> Cardinality(DOMAIN p.holdings),
                 trade_count |-> Len(p.trade_history)]
CurrentRankings == [b \in Agents |-> RankEntry(Portfolio(b))]

\* run_agent_one_day up to the first node: the agent's ranking context is
\* built from get_current_rankings, pre_exec_* are saved, then
\* run_single_day polls should_stop (and returns at once when it is set),
\* builds the state and takes pre_state.  dict(self.holdings) copies the
\* mapping only: the holding objects stay shared with the live portfolio.
TaskStart(a) ==
    /\ taskPc[a] = "submitted"
    /\ dayStart' = [dayStart EXCEPT ![a] = Portfolio(a)]
    /\ pre_exec' = [pre_exec EXCEPT ![a] = [assets |-> total_assets[a],
                                            daily_assets |-> daily_assets[a]]]
    /\ IF shouldStop
       THEN Returned(a, "none")
       ELSE /\ taskPc' = [taskPc EXCEPT ![a] = "update_prices"]
            /\ st' = [st EXCEPT ![a] = [NoState EXCEPT !.cash = cash[a],
                                                !.total_assets = total_assets[a]]]
            /\ pre_state' = [pre_state EXCEPT ![a] = Portfolio(a)]
            /\ ranking_context' = [ranking_context EXCEPT ![a] = CurrentRankings]
            /\ UNCHANGED <<taskError, returnedDays>>
    /\ UNCHANGED <<shouldStop, schedVars, taskDate, agentVars, dbVars>>
    /\ UNCHANGED <<submitted, severeDays, failedDays, stoppedMid>>
    /\ UNCHANGED <<startupVars, serviceVars>>

\* Node 1.  holdings[code][...] = ... writes into the holding objects, which
\* pre_state['holdings'] references as well.
UpdatePrices(a) ==
    /\ taskPc[a] = "update_prices"
    /\ holdings' = [holdings EXCEPT ![a] = UpdatedHoldings(@, taskDate[a])]
    /\ pre_state' = [pre_state EXCEPT ![a].holdings = UpdatedHoldings(@, taskDate[a])]
    /\ st' = [st EXCEPT ![a].total_assets =
                 st[a].cash + HoldingsValue(UpdatedHoldings(holdings[a], taskDate[a]))]
    /\ Step(a)
    /\ UNCHANGED <<shouldStop, schedVars, taskDate, taskError, pre_exec, dbVars, histVars>>
    /\ UNCHANGED <<cash, total_assets, trade_history, daily_assets>>
    /\ UNCHANGED <<startupVars, serviceVars, ranking_context>>

\* Node 2: stop or no holdings -> no decision; a forced sell skips the LLM.
EvaluateHoldings(a) ==
    /\ taskPc[a] = "evaluate_holdings"
    /\ IF shouldStop \/ holdings[a] = <<>>
       THEN st' = [st EXCEPT ![a].sells = <<>>]
       ELSE IF ForcedSells(holdings[a]) # <<>>
            THEN st' = [st EXCEPT ![a].sells = ForcedSells(holdings[a])]
            ELSE \E answer \in SellLists :
                    st' = [st EXCEPT ![a].sells = FixedDecisions(answer, holdings[a])]
    /\ Step(a)
    /\ UNCHANGED <<shouldStop, schedVars, taskDate, taskError, pre_state, pre_exec>>
    /\ UNCHANGED <<agentVars, dbVars, histVars>>
    /\ UNCHANGED <<startupVars, serviceVars, ranking_context>>

\* Node 3
ExecuteSells(a) ==
    /\ taskPc[a] = "execute_sells"
    /\ LET r == SellLoop(st[a].sells, {}, holdings[a], st[a].cash,
                         trade_history[a], taskDate[a])
       IN  /\ holdings' = [holdings EXCEPT ![a] = r.holdings]
           /\ trade_history' = [trade_history EXCEPT ![a] = r.trade_history]
           /\ st' = [st EXCEPT ![a].cash = r.cash, ![a].sells = <<>>]
    /\ Step(a)
    /\ UNCHANGED <<shouldStop, schedVars, taskDate, taskError, pre_state, pre_exec>>
    /\ UNCHANGED <<cash, total_assets, daily_assets, dbVars, histVars>>
    /\ UNCHANGED <<startupVars, serviceVars, ranking_context>>

\* Node 4: stop or cash below min_cash_to_buy -> no candidates; else the
\* codes with a bar on the date.
FindCandidates(a) ==
    /\ taskPc[a] = "find_candidates"
    /\ st' = [st EXCEPT ![a].candidates =
                 IF shouldStop \/ st[a].cash < MinCashToBuy THEN {}
                 ELSE {c \in Codes : Close(c, taskDate[a]) > 0}]
    /\ Step(a)
    /\ UNCHANGED <<shouldStop, schedVars, taskDate, taskError, pre_state, pre_exec>>
    /\ UNCHANGED <<agentVars, dbVars, histVars>>
    /\ UNCHANGED <<startupVars, serviceVars, ranking_context>>

\* Node 5: stop or no candidates -> no decision; else the LLM's answer.
AnalyzeCandidates(a) ==
    /\ taskPc[a] = "analyze_candidates"
    /\ IF shouldStop \/ st[a].candidates = {}
       THEN st' = [st EXCEPT ![a].buys = <<>>, ![a].candidates = {}]
       ELSE \E answer \in BuyLists :
               st' = [st EXCEPT ![a].buys = answer, ![a].candidates = {}]
    /\ Step(a)
    /\ UNCHANGED <<shouldStop, schedVars, taskDate, taskError, pre_state, pre_exec>>
    /\ UNCHANGED <<agentVars, dbVars, histVars>>
    /\ UNCHANGED <<startupVars, serviceVars, ranking_context>>

\* Node 6
ExecuteBuys(a) ==
    /\ taskPc[a] = "execute_buys"
    /\ LET r == IF BuyGateClosed(holdings[a], st[a].cash)
                THEN [holdings |-> holdings[a], cash |-> st[a].cash,
                      trade_history |-> trade_history[a]]
                ELSE BuyLoop(st[a].buys, {}, holdings[a], st[a].cash,
                             trade_history[a], st[a].total_assets, taskDate[a])
       IN  /\ holdings' = [holdings EXCEPT ![a] = r.holdings]
           /\ trade_history' = [trade_history EXCEPT ![a] = r.trade_history]
           /\ st' = [st EXCEPT ![a].cash = r.cash, ![a].buys = <<>>]
    /\ Step(a)
    /\ UNCHANGED <<shouldStop, schedVars, taskDate, taskError, pre_state, pre_exec>>
    /\ UNCHANGED <<cash, total_assets, daily_assets, dbVars, histVars>>
    /\ UNCHANGED <<startupVars, serviceVars, ranking_context>>

\* Node 7
RecordDaily(a) ==
    /\ taskPc[a] = "record_daily"
    /\ LET rec == DailyRecord(taskDate[a], st[a].cash, holdings[a])
       IN  /\ st' = [st EXCEPT ![a].total_assets = rec.total_assets]
           /\ daily_assets' = [daily_assets EXCEPT ![a] = Append(@, rec)]
    /\ Step(a)
    /\ UNCHANGED <<shouldStop, schedVars, taskDate, taskError, pre_state, pre_exec>>
    /\ UNCHANGED <<cash, holdings, total_assets, trade_history, dbVars, histVars>>
    /\ UNCHANGED <<startupVars, serviceVars, ranking_context>>

\* Node 8: the reflection leaves the portfolio alone
Reflect(a) ==
    /\ taskPc[a] = "reflect"
    /\ Step(a)
    /\ UNCHANGED <<shouldStop, schedVars, taskDate, taskError, st, pre_state, pre_exec>>
    /\ UNCHANGED <<agentVars, dbVars, histVars>>
    /\ UNCHANGED <<startupVars, serviceVars, ranking_context>>

\* app.invoke returned: the attributes take result_state, the callback saves
\* the new trades and the new daily points, run_agent_one_day returns.
TaskFinish(a) ==
    /\ taskPc[a] = "end"
    /\ cash' = [cash EXCEPT ![a] = st[a].cash]
    /\ total_assets' = [total_assets EXCEPT ![a] = st[a].total_assets]
    /\ UpdateCallback(a, trade_history[a], daily_assets[a], holdings[a])
    /\ Returned(a, "none")
    /\ UNCHANGED <<shouldStop, schedVars, taskDate, pre_exec>>
    /\ UNCHANGED <<holdings, trade_history, daily_assets>>
    /\ UNCHANGED <<submitted, severeDays, failedDays, stoppedMid, dayStart>>
    /\ UNCHANGED <<startupVars, serviceVars>>

\* A node raises: run_single_day restores pre_state and re-raises;
\* run_agent_one_day restores daily_assets, puts the continuity entry of the
\* date, reports through the callback and returns the error.
TaskRaise(a) ==
    /\ taskPc[a] \in NodeSet
    /\ cash' = [cash EXCEPT ![a] = pre_state[a].cash]
    /\ holdings' = [holdings EXCEPT ![a] = pre_state[a].holdings]
    /\ total_assets' = [total_assets EXCEPT ![a] = pre_state[a].total_assets]
    /\ trade_history' = [trade_history EXCEPT ![a] = pre_state[a].trade_history]
    /\ LET dl == PutDaily(pre_exec[a].daily_assets,
                          ContinuityEntry(taskDate[a], pre_exec[a].assets,
                                          pre_state[a].cash))
       IN  /\ daily_assets' = [daily_assets EXCEPT ![a] = dl]
           /\ UpdateCallback(a, pre_state[a].trade_history, dl, pre_state[a].holdings)
    /\ Returned(a, "exception")
    /\ failedDays' = [failedDays EXCEPT ![a] = @ \cup {taskDate[a]}]
    /\ UNCHANGED <<shouldStop, schedVars, taskDate, pre_exec>>
    /\ UNCHANGED <<submitted, severeDays, stoppedMid, dayStart>>
    /\ UNCHANGED <<startupVars, serviceVars>>

\* POST /shutdown sets _should_stop
Stop ==
    /\ ~shouldStop
    /\ schedPc # "finished"
    /\ shouldStop' = TRUE
    /\ stoppedMid' = [a \in Agents |-> IF taskPc[a] \in NodeSet
                                       THEN stoppedMid[a] \cup {taskDate[a]}
                                       ELSE stoppedMid[a]]
    /\ UNCHANGED <<schedVars, taskVars, agentVars, dbVars>>
    /\ UNCHANGED <<submitted, returnedDays, severeDays, failedDays, dayStart>>
    /\ UNCHANGED <<startupVars, serviceVars, ranking_context>>

TaskNext(a) ==
    \/ TaskStart(a)
    \/ UpdatePrices(a)
    \/ EvaluateHoldings(a)
    \/ ExecuteSells(a)
    \/ FindCandidates(a)
    \/ AnalyzeCandidates(a)
    \/ ExecuteBuys(a)
    \/ RecordDaily(a)
    \/ Reflect(a)
    \/ TaskFinish(a)
    \/ TaskRaise(a)

Next ==
    \/ LoopTop
    \/ Submit
    \/ PrimaryWait
    \/ GraceWait
    \/ ExecutorExit
    \/ CompleteSession
    \/ Stop
    \/ \E a \in Agents : TaskNext(a)

Spec == Init /\ [][Next]_vars

\* ------------------------------------------------------- properties ----
InPipeline(a) == taskPc[a] \in NodeSet \cup {"end"}
Failed(a) == taskPc[a] = "returned" /\ taskError[a] = "exception"
DailyOn(dl, d) == {i \in DOMAIN dl : dl[i].date = d}
DailyUpTo(dl, d) == {i \in DOMAIN dl : dl[i].date <= d}
AtBarrier == schedPc \in {"loop_top", "loop_exit", "finished"}

\* C1: while an agent's pipeline for a date after the first is running, every
\* agent's task for the date before it has returned or has been declared
\* severely timed out.
C1_Barrier ==
    \A a \in Agents :
        (InPipeline(a) /\ taskDate[a] > 1) =>
            \A b \in Agents :
                (taskDate[a] - 1) \in returnedDays[b] \cup severeDays[b]

\* A pipeline of the second date runs after a first date on which an agent
\* was declared severely timed out.
C1_Witness ==
    \E a, b \in Agents :
        InPipeline(a) /\ taskDate[a] = 2 /\ 1 \in severeDays[b]

\* C2 (as the specification states it): between two dates and at the end of
\* the run, any two agents hold the same number of daily points dated up to D,
\* for every D.
C2_SameCount ==
    AtBarrier =>
        \A a, b \in Agents : \A d \in 1..NumDays :
            Cardinality(DailyUpTo(daily_assets[a], d)) =
            Cardinality(DailyUpTo(daily_assets[b], d))

\* C3 (as the specification states it): once an agent has been declared
\* severely timed out and the scheduler is at the end of the date, the
\* scheduler can advance although that agent's task has not returned.
C3_SevereDoesNotBlock ==
    (schedPc = "exit_executor" /\
     \E a \in Agents : agent_errors[a] = "severe_timeout" /\ ~FutureDone(a))
        => ENABLED ExecutorExit

\* C4 (as the specification states it): after a pipeline that raised, cash,
\* total_assets and every holding (amount, cost, current_price, hold_days)
\* equal their values from before the first node.
C4_RollbackRestores ==
    \A a \in Agents :
        Failed(a) =>
            /\ cash[a] = dayStart[a].cash
            /\ total_assets[a] = dayStart[a].total_assets
            /\ holdings[a] = dayStart[a].holdings

\* C5: after a pipeline that raised on date D, daily_assets is the list from
\* before the day plus exactly one point dated D, whose total_assets is the
\* agent's total_assets from before the day.
C5_ContinuityPoint ==
    \A a \in Agents :
        Failed(a) =>
            /\ Cardinality(DailyOn(daily_assets[a], taskDate[a])) = 1
            /\ Len(daily_assets[a]) = Len(dayStart[a].daily_assets) + 1
            /\ \A i \in DailyOn(daily_assets[a], taskDate[a]) :
                  daily_assets[a][i].total_assets = dayStart[a].total_assets

\* A pipeline raised on a date the agent began with a holding.
C5_Witness ==
    \E a \in Agents :
        /\ Failed(a)
        /\ DOMAIN dayStart[a].holdings # {}
        /\ DailyOn(daily_assets[a], taskDate[a]) # {}

\* C6 (as the specification states it): when the scheduler has moved past a
\* date on which an agent was declared severely timed out (and no stop was
\* requested), that agent holds exactly one daily point of the date, carrying
\* its total_assets from before the day.
C6_SevereContinuity ==
    \A a \in Agents :
        (schedPc = "loop_top" /\ agent_errors[a] = "severe_timeout" /\ ~shouldStop) =>
            /\ Cardinality(DailyOn(daily_assets[a], taskDate[a])) = 1
            /\ \A i \in DailyOn(daily_assets[a], taskDate[a]) :
                  daily_assets[a][i].total_assets = dayStart[a].total_assets

StoppedDay(a) ==
    taskPc[a] = "returned" /\ taskError[a] = "none" /\ taskDate[a] \in stoppedMid[a]
TradesOn(th, d) == {i \in DOMAIN th : th[i].date = d}
RowsOn(rows, d) == {i \in DOMAIN rows : rows[i].trade_date = d}

C8_AllSubmitted ==
    \A d \in 1..NumDays :
        (d < dayIdx \/ (d = dayIdx /\ schedPc \in {"wait_primary", "wait_grace",
                                                   "exit_executor"}))
            => submitted[d] = Agents

\* An agent that raised or was declared severely timed out on the first date
\* has a task on the second.
C8_Witness ==
    \E a \in Agents :
        /\ dayIdx = 2
        /\ schedPc = "wait_primary"
        /\ 1 \in failedDays[a] \cup severeDays[a]
        /\ a \in submitted[2]

\* The buy that established the lot sold by trade i: the last buy of the code
\* before i.
LotBuy(th, i) ==
    {j \in 1..(i - 1) :
        /\ th[j].action = "buy" /\ th[j].code = th[i].code
        /\ \A k \in (j + 1)..(i - 1) :
              ~(th[k].action = "buy" /\ th[k].code = th[i].code)}

\* C9: no sell trade carries the date of the buy trade that established the
\* lot it sells.
C9_TPlusOne ==
    \A a \in Agents : \A i \in DOMAIN trade_history[a] :
        trade_history[a][i].action = "sell" =>
            \A j \in LotBuy(trade_history[a], i) :
                trade_history[a][j].date # trade_history[a][i].date

\* A lot was bought and later sold.
C9_Witness ==
    \E a \in Agents : \E i \in DOMAIN trade_history[a] :
        trade_history[a][i].action = "sell" /\ LotBuy(trade_history[a], i) # {}

\* The change of cash C10 states for one trade, total being amount times the
\* close of the trade's date.
StatedCashChange(t) ==
    LET total == t.amount * Close(t.code, t.date) * MoneyScale
        fee == Max((total * 3) \div 10000, 5 * MoneyScale)
    IN  IF t.action = "sell" THEN total - fee - total \div 1000
        ELSE 0 - (total + fee)

RECURSIVE SumStated(_)
SumStated(ts) == IF ts = <<>> THEN 0 ELSE StatedCashChange(Head(ts)) + SumStated(Tail(ts))

\* C10 (as the specification states it): a run of the sell node or of the buy
\* node changes cash by the sum, over the trades it recorded, of
\* total - max(0.0003 total, 5) - 0.001 total for a sell and
\* -(total + max(0.0003 total, 5)) for a buy, total = amount x the date's close.
C10_CashChange ==
    [][\A a \in Agents :
          (taskPc[a] \in {"execute_sells", "execute_buys"} /\
           taskPc'[a] = NextNode(taskPc[a])) =>
              st'[a].cash - st[a].cash =
                 SumStated(SubSeq(trade_history'[a], Len(trade_history[a]) + 1,
                                  Len(trade_history'[a])))]_vars

\* ------------------------------------------------ position and cash rules ----
\* A daily point of the date has just been written by record_daily and the
\* holdings are still the ones it valued.
JustRecorded(a) == taskPc[a] \in {"reflect", "end"}
LastDaily(a) == daily_assets[a][Len(daily_assets[a])]
MarketValue(hld) == hld.amount * hld.current_price * MoneyScale

\* C11: at every daily point written by record_daily, no single holding's
\* market value exceeds 40% of the total_assets of that point.
C11_PositionCap ==
    \A a \in Agents :
        JustRecorded(a) =>
            \A c \in DOMAIN holdings[a] :
                MarketValue(holdings[a][c]) * 5 <= LastDaily(a).total_assets * 2

\* ------------------------------- _execute_buys on answers of any length ----
\* The buy node applied to a portfolio that has not traded yet, on any trade
\* date, with an answer of up to Len(AnswerCodes) decisions.
AnswerCodes == CodeOrder
AnswerAmounts == {100, 200, 300, 400}
Answer(n, amt) == [i \in 1..n |-> BuyDec(AnswerCodes[i], amt)]
Answers == {Answer(n, amt) : n \in 0..Len(AnswerCodes), amt \in AnswerAmounts}

\* daily_assets of an agent that held cash on every date before d
IdleDaily(d) == [i \in 1..(d - 1) |-> DailyRecord(i, InitialCapital, <<>>)]
IdleRows(d) == [i \in 1..(d - 1) |-> [date |-> i, assets |-> InitialCapital]]
IdlePortfolio(d) ==
    [cash |-> InitialCapital, holdings |-> <<>>, total_assets |-> InitialCapital,
     trade_history |-> <<>>, daily_assets |-> IdleDaily(d)]

\* Every agent's worker stands before node 6 of date d with the LLM's answer.
InitBuys ==
    \E d \in 1..NumDays :
        /\ shouldStop = FALSE
        /\ schedPc = "wait_primary"
        /\ dayIdx = d
        /\ notDone = {}
        /\ agent_states = [a \in Agents |-> [completed |-> FALSE, error |-> "none"]]
        /\ agent_errors = [a \in Agents |-> "none"]
        /\ taskPc = [a \in Agents |-> "execute_buys"]
        /\ taskDate = [a \in Agents |-> d]
        /\ taskError = [a \in Agents |-> "none"]
        /\ cash = [a \in Agents |-> InitialCapital]
        /\ holdings = [a \in Agents |-> <<>>]
        /\ total_assets = [a \in Agents |-> InitialCapital]
        /\ trade_history = [a \in Agents |-> <<>>]
        /\ daily_assets = [a \in Agents |-> IdleDaily(d)]
        /\ st \in [Agents -> {[cash |-> InitialCapital, total_assets |-> InitialCapital,
                               sells |-> <<>>, buys |-> b, candidates |-> {}] :
                              b \in Answers}]
        /\ pre_state = [a \in Agents |-> IdlePortfolio(d)]
        /\ pre_exec = [a \in Agents |-> [assets |-> InitialCapital,
                                          daily_assets |-> IdleDaily(d)]]
        /\ saved_trade_counts = [a \in Agents |-> 0]
        /\ saved_daily_counts = [a \in Agents |-> d - 1]
        /\ dbTrades = [a \in Agents |-> <<>>]
        /\ dbDaily = [a \in Agents |-> IdleRows(d)]
        /\ dbHoldings = [a \in Agents |-> <<>>]
        /\ start_date = 1
        /\ rollbackTo = [a \in Agents |-> 0]
        /\ session = [current_date |-> d - 1, status |-> "running"]
        /\ submitted = [i \in 1..NumDays |-> IF i <= d THEN Agents ELSE {}]
        /\ returnedDays = [a \in Agents |-> 1..(d - 1)]
        /\ severeDays = [a \in Agents |-> {}]
        /\ failedDays = [a \in Agents |-> {}]
        /\ stoppedMid = [a \in Agents |-> {}]
        /\ dayStart = [a \in Agents |-> IdlePortfolio(d)]
        /\ ServiceInit
        /\ ranking_context = [a \in Agents |-> [b \in Agents |-> RankEntry(IdlePortfolio(d))]]

NextBuys == \E a \in Agents : ExecuteBuys(a) \/ RecordDaily(a) \/ Reflect(a)

SpecBuys == InitBuys /\ [][NextBuys]_vars

BoughtOn(a, d) ==
    \E i \in DOMAIN trade_history[a] :
        trade_history[a][i].date = d /\ trade_history[a][i].action = "buy"

\* C12: no daily point written by record_daily on a date on which the agent
\* executed a buy has cash below 5% of the initial capital.
C12_CashReserve ==
    \A a \in Agents :
        (JustRecorded(a) /\ BoughtOn(a, taskDate[a])) =>
            LastDaily(a).cash * 20 >= InitialCapital

\* C13: the number of holdings never exceeds max_holdings, however many buy
\* decisions one answer carries.
C13_HoldingsCap ==
    \A a \in Agents : Cardinality(DOMAIN holdings[a]) <= MaxHoldings

\* C16: the dates of an agent's daily_assets are strictly increasing, so no
\* trade date has two entries, whether its day succeeded or failed.
C16_DatesIncreasing ==
    \A a \in Agents :
        \A i, j \in DOMAIN daily_assets[a] :
            i < j => daily_assets[a][i].date < daily_assets[a][j].date

\* An agent whose first date failed and whose second date succeeded holds one
\* entry for each of the two dates.
C16_Witness ==
    \E a \in Agents :
        /\ failedDays[a] = {1}
        /\ 2 \in returnedDays[a]
        /\ Len(daily_assets[a]) = 2
        /\ daily_assets[a][1].date = 1
        /\ daily_assets[a][2].date = 2

\* ------------------------------------------ a session found at start-up ----
\* The calendar day of the d-th trade date: trade dates 2 and 3 are separated
\* by a holiday week.  Dates are kept as trade-date numbers; the 8-digit and
\* the dashed spelling of a date denote the same day.
Cal(d) == IF d <= 2 THEN d ELSE d + 4

\* data_provider.get_trade_dates(start, end)[0]: the first trade date on or
\* after a calendar day
FirstTradeDateFrom(day) == CHOOSE d \in 1..(day + 1) :
                              Cal(d) >= day /\ \A e \in 1..(d - 1) : Cal(e) < day

\* Number of trade dates the earlier process persisted
MaxPersisted == 3

\* The buy answers of the earlier process
ResumeBuys == {<<>>, <<BuyDec("X", 400)>>, <<BuyDec("X", 300)>>, Answer(3, 400)}

\* run_single_day without an error, the LLM proposing no sell: the nodes in
\* their order, as one function of the portfolio.
RunDay(p, d, buys) ==
    LET h1 == UpdatedHoldings(p.holdings, d)
        ta == p.cash + HoldingsValue(h1)
        r1 == SellLoop(ForcedSells(h1), {}, h1, p.cash, p.trade_history, d)
        r2 == IF r1.cash < MinCashToBuy \/ BuyGateClosed(r1.holdings, r1.cash)
              THEN r1
              ELSE BuyLoop(buys, {}, r1.holdings, r1.cash, r1.trade_history, ta, d)
        rec == DailyRecord(d, r2.cash, r2.holdings)
    IN  [cash |-> r2.cash, holdings |-> r2.holdings,
         total_assets |-> rec.total_assets,
         trade_history |-> r2.trade_history,
         daily_assets |-> Append(p.daily_assets, rec)]

\* run_agent_one_day when a node after update_prices raises: the portfolio is
\* restored from pre_state (whose holding objects carry the new prices) and
\* the continuity entry is put.
FailDay(p, d) ==
    [cash |-> p.cash, holdings |-> UpdatedHoldings(p.holdings, d),
     total_assets |-> p.total_assets,
     trade_history |-> p.trade_history,
     daily_assets |-> PutDaily(p.daily_assets,
                               ContinuityEntry(d, p.total_assets, p.cash))]

\* The portfolio after i of k dates, the last of which may have failed
RECURSIVE PortfolioAfter(_, _, _, _)
PortfolioAfter(i, k, buys, fail) ==
    IF i = 0 THEN IdlePortfolio(1)
    ELSE IF i = k /\ fail
         THEN FailDay(PortfolioAfter(i - 1, k, buys, fail), i)
         ELSE RunDay(PortfolioAfter(i - 1, k, buys, fail), i, buys[i])

\* What update_callback has written by then
PersistedTrades(p) == TradeRows(DedupeTrades(p.trade_history, {}))
PersistedDaily(p) == InsertOrIgnore(<<>>, p.daily_assets)
PersistedHoldings(p) == HoldingRows(p.holdings)

\* run_arena finds an unfinished session of k trade dates; the agents have
\* just been constructed by initialize_agents.
\* dayStart keeps the portfolio each agent held when the earlier process
\* stopped.
InitResume ==
    \E k \in 1..MaxPersisted :
    \E buys \in [Agents -> [1..k -> ResumeBuys]] :
    \E fail \in [Agents -> BOOLEAN] :
        LET p == [a \in Agents |-> PortfolioAfter(k, k, buys[a], fail[a])]
        IN  /\ dbTrades = [a \in Agents |-> PersistedTrades(p[a])]
            /\ dbDaily = [a \in Agents |-> PersistedDaily(p[a])]
            /\ dbHoldings = [a \in Agents |-> PersistedHoldings(p[a])]
            /\ session = [current_date |-> k, status |-> "running"]
            /\ shouldStop = FALSE
            /\ schedPc = "startup"
            /\ dayIdx = 1
            /\ notDone = {}
            /\ agent_states = [a \in Agents |-> [completed |-> FALSE, error |-> "none"]]
            /\ agent_errors = [a \in Agents |-> "none"]
            /\ taskPc = [a \in Agents |-> "none"]
            /\ taskDate = [a \in Agents |-> 0]
            /\ taskError = [a \in Agents |-> "none"]
            /\ cash = [a \in Agents |-> InitialCapital]
            /\ holdings = [a \in Agents |-> <<>>]
            /\ total_assets = [a \in Agents |-> InitialCapital]
            /\ trade_history = [a \in Agents |-> <<>>]
            /\ daily_assets = [a \in Agents |-> <<>>]
            /\ st = [a \in Agents |-> NoState]
            /\ pre_state = [a \in Agents |-> NoSnapshot]
            /\ pre_exec = [a \in Agents |-> NoPreExec]
            /\ saved_trade_counts = [a \in Agents |-> 0]
            /\ saved_daily_counts = [a \in Agents |-> 0]
            /\ submitted = [d \in 1..NumDays |-> {}]
            /\ returnedDays = [a \in Agents |-> {}]
            /\ severeDays = [a \in Agents |-> {}]
            /\ failedDays = [a \in Agents |-> {}]
            /\ stoppedMid = [a \in Agents |-> {}]
            /\ dayStart = p
            /\ start_date = 1
            /\ rollbackTo = [a \in Agents |-> 0]
            /\ ServiceInit
            /\ ranking_context = [a \in Agents |-> NoRanking]

\* ------------------------------------------------ load_session, restore ----
\* load_session_data(include_future=False): the rows up to current_date
LoadedDaily(a) ==
    SelectSeq(dbDaily[a], LAMBDA r : r.date >= 1 /\ r.date <= session.current_date)
LoadedTrades(a) ==
    SelectSeq(dbTrades[a],
              LAMBDA r : r.trade_date >= 1 /\ r.trade_date <= session.current_date)

\* get_latest_trade_date: MAX(trade_date) of arena_daily_assets, 0 when empty
LatestTradeDate ==
    LET ds == UNION {{dbDaily[a][i].date : i \in DOMAIN dbDaily[a]} : a \in Agents}
    IN  IF ds = {} THEN 0 ELSE CHOOSE d \in ds : \A e \in ds : e <= d

\* resume_from_date: the calendar day after the latest persisted date (after
\* the session's current_date when there is no row)
ResumeFromDate ==
    LET last == IF LatestTradeDate # 0 THEN LatestTradeDate ELSE session.current_date
    IN  FirstTradeDateFrom(Cal(last) + 1)

\* MemoryStore.get_trades(): _trades[::-1]
Reverse(s) == [i \in 1..Len(s) |-> s[Len(s) + 1 - i]]

\* agent.daily_assets = [{'date': d['date'], 'total_assets': d['assets']} ...]
RestoredDaily(rows) ==
    [i \in DOMAIN rows |-> [date |-> rows[i].date, total_assets |-> rows[i].assets]]

\* agent.holdings[code] = {amount, cost: cost or avg_price, current_price,
\* hold_days, date}; buy_date 0: the key is absent
RestoredHoldings(rows) ==
    [c \in DOMAIN rows |->
        [amount |-> rows[c].amount, cost |-> rows[c].avg_price,
         current_price |-> rows[c].current_price,
         hold_days |-> rows[c].hold_days, buy_date |-> 0]]

\* ------------------------------------------- reading a daily point, a trade ----
\* entry.get('total_assets') or entry.get('assets')
EntryAssets(e) ==
    IF e.total_assets # 0 THEN e.total_assets
    ELSE IF "assets" \in DOMAIN e THEN e.assets ELSE 0

\* trade.get('date') or trade.get('trade_date')
TradeDateOf(t) == IF "date" \in DOMAIN t THEN t.date ELSE t.trade_date
\* trade.get('code') or trade.get('stock_code')
TradeCodeOf(t) == IF "code" \in DOMAIN t THEN t.code ELSE t.stock_code
\* trade.get('amount', 0): the number of shares of a trade the agent made, the
\* money of the trade (in yuan) of a row loaded from arena_trades
TradeAmountOf(t) == IF "volume" \in DOMAIN t THEN t.amount \div MoneyScale ELSE t.amount

\* ------------------------------------- find_first_continuous_data_end ----
GapDays == 3
\* first_gap_date: the first entry more than GapDays calendar days after the
\* entry before it, or dated before it; 0 when there is none
FirstGapDate(dl) ==
    LET gaps == {i \in 2..Len(dl) :
                    \/ Cal(dl[i].date) - Cal(dl[i - 1].date) > GapDays
                    \/ dl[i].date < dl[i - 1].date}
    IN  IF gaps = {} THEN 0
        ELSE dl[CHOOSE i \in gaps : \A j \in gaps : i <= j].date

\* ------------------------------------------------------ rollback_to_date ----
\* sorted(trade_history, key=date): a stable sort
RECURSIVE SortedByDate(_, _, _)
SortedByDate(th, d, last) ==
    IF d > last THEN <<>>
    ELSE SelectSeq(th, LAMBDA t : TradeDateOf(t) = d) \o SortedByDate(th, d + 1, last)

\* The holdings rebuilt from the trades: cost is the sum of amount * price,
\* a sell scales it by the part that stays (the quotient cut to a whole number)
RECURSIVE ReplayTrades(_, _)
ReplayTrades(ts, h) ==
    IF ts = <<>> THEN h
    ELSE LET t == Head(ts)
             code == TradeCodeOf(t)
             amount == TradeAmountOf(t)
         IN  IF t.action = "buy"
             THEN IF code \in DOMAIN h
                  THEN ReplayTrades(Tail(ts),
                          [h EXCEPT ![code].amount = @ + amount,
                                    ![code].cost = @ + amount * t.price])
                  ELSE ReplayTrades(Tail(ts),
                          [k \in DOMAIN h \cup {code} |->
                              IF k = code
                              THEN [amount |-> amount, cost |-> amount * t.price,
                                    current_price |-> t.price,
                                    hold_days |-> 0, buy_date |-> 0]
                              ELSE h[k]])
             ELSE IF t.action = "sell" /\ code \in DOMAIN h
                  THEN IF h[code].amount - amount <= 0
                       THEN ReplayTrades(Tail(ts), [k \in DOMAIN h \ {code} |-> h[k]])
                       ELSE ReplayTrades(Tail(ts),
                               [h EXCEPT ![code].amount = @ - amount,
                                         ![code].cost =
                                            (@ * (h[code].amount - amount))
                                               \div h[code].amount])
                  ELSE ReplayTrades(Tail(ts), h)

\* rollback_to_date(T) on a portfolio.  _update_holdings_current_prices is
\* not a method of the agent: the call raises and the prices of the replay stay.
RollbackToDate(p, T) ==
    LET dl == SelectSeq(p.daily_assets, LAMBDA e : e.date < T)
        th == SelectSeq(p.trade_history, LAMBDA t : TradeDateOf(t) < T)
    IN  IF dl = <<>>
        THEN [cash |-> InitialCapital, holdings |-> <<>>,
              total_assets |-> InitialCapital,
              trade_history |-> th, daily_assets |-> dl]
        ELSE LET last == dl[Len(dl)]
                 ta == IF last.total_assets # 0 THEN last.total_assets
                       ELSE IF "assets" \in DOMAIN last THEN last.assets
                       ELSE InitialCapital
                 c0 == IF "cash" \in DOMAIN last THEN last.cash ELSE ta
                 h == ReplayTrades(SortedByDate(th, 0, T), <<>>)
                 expected_cash == ta - HoldingsValue(h)
             IN  [cash |-> IF expected_cash >= 0 THEN expected_cash ELSE c0,
                  holdings |-> h, total_assets |-> ta,
                  trade_history |-> th, daily_assets |-> dl]

\* "reset to the initial state"
ResetPortfolio ==
    [cash |-> InitialCapital, holdings |-> <<>>, total_assets |-> InitialCapital,
     trade_history |-> <<>>, daily_assets |-> <<>>]

\* ------------------------------------------------ detect_data_corruption ----
\* The loop over daily_assets: does entry i fail a check?  A change of more
\* than n percent of prev is a change of more than (n * prev) \div 100.
BadEntry(dl, i) ==
    LET e == dl[i]
        ta == EntryAssets(e)
        prev == EntryAssets(dl[i - 1])
        days_diff == Cal(e.date) - Cal(dl[i - 1].date)
    IN  \/ i > 1 /\ e.date < dl[i - 1].date
        \/ ta <= 0 /\ (ta < 0 \/ "assets" \notin DOMAIN e)
        \/ /\ i > 1
           /\ prev > 0
           /\ \/ days_diff > GapDays
              \/ /\ days_diff = 1
                 /\ \/ prev - ta > (3 * prev) \div 25
                    \/ ta - prev > (3 * prev) \div 10
              \/ /\ days_diff > 1
                 /\ \/ ta - prev > (days_diff * prev) \div 10
                    \/ prev - ta > (days_diff * prev) \div 10
        \/ "cash" \in DOMAIN e /\ e.cash < 0

\* The date detect_data_corruption returns, 0 when it finds nothing
CorruptedDate(p) ==
    LET dl == p.daily_assets
        bad == {i \in DOMAIN dl : BadEntry(dl, i)}
        last_total == EntryAssets(dl[Len(dl)])
        expected_total == p.cash + HoldingsValue(p.holdings)
        diff == IF last_total >= expected_total THEN last_total - expected_total
                ELSE expected_total - last_total
        dates == {dl[i].date : i \in DOMAIN dl}
        stray == {i \in DOMAIN p.trade_history :
                     TradeDateOf(p.trade_history[i]) \notin dates}
    IN  IF dl = <<>> THEN 0
        ELSE IF bad # {} THEN dl[CHOOSE i \in bad : \A j \in bad : i <= j].date
        ELSE IF diff > expected_total \div 20 /\ expected_total > 100 * MoneyScale
             THEN dl[Len(dl)].date
        ELSE IF stray # {}
             THEN TradeDateOf(p.trade_history[CHOOSE i \in stray : \A j \in stray : i <= j])
        ELSE 0

\* ------------------------------------------------- the start-up sequence ----
AgentOrder == <<"a1", "a2">>
Before(a) == {AgentOrder[j] : j \in 1..((CHOOSE i \in 1..Len(AgentOrder) : AgentOrder[i] = a) - 1)}

SetPortfolio(a, p) ==
    /\ cash' = [cash EXCEPT ![a] = p.cash]
    /\ holdings' = [holdings EXCEPT ![a] = p.holdings]
    /\ total_assets' = [total_assets EXCEPT ![a] = p.total_assets]
    /\ trade_history' = [trade_history EXCEPT ![a] = p.trade_history]
    /\ daily_assets' = [daily_assets EXCEPT ![a] = p.daily_assets]

HasData(a) == daily_assets[a] # <<>> \/ trade_history[a] # <<>>
HasHistory(a) == HasData(a) \/ holdings[a] # <<>>

StartupFrame ==
    UNCHANGED <<shouldStop, notDone, agent_states, agent_errors, taskDate,
                taskError, st, pre_state, pre_exec, dbTrades, dbDaily,
                dbHoldings, session, histVars, serviceVars, ranking_context>>

\* run_arena: MemoryStore.load_session, resume_from_date, start_date, and the
\* counters of what is already saved
LoadSession ==
    /\ schedPc = "startup"
    /\ schedPc' = "restore_agents"
    /\ start_date' = ResumeFromDate
    /\ saved_trade_counts' = [a \in Agents |-> Len(LoadedTrades(a))]
    /\ saved_daily_counts' = [a \in Agents |-> Len(LoadedDaily(a))]
    /\ UNCHANGED <<dayIdx, taskPc, agentVars, rollbackTo>>
    /\ StartupFrame

\* run_arena, "for agent_info in arena.agents": the agent takes the loaded
\* daily points, holdings and trades; cash = total_assets - holdings value
RestoreAgent(a) ==
    /\ schedPc = "restore_agents"
    /\ taskPc[a] = "none"
    /\ \A b \in Before(a) : taskPc[b] = "checked"
    /\ LET rows == LoadedDaily(a)
           h == RestoredHoldings(dbHoldings[a])
           ta == rows[Len(rows)].assets
       IN  IF rows # <<>>
           THEN /\ daily_assets' = [daily_assets EXCEPT ![a] = RestoredDaily(rows)]
                /\ total_assets' = [total_assets EXCEPT ![a] = ta]
                /\ holdings' = [holdings EXCEPT ![a] = h]
                /\ cash' = [cash EXCEPT ![a] = ta - HoldingsValue(h)]
           ELSE UNCHANGED <<daily_assets, total_assets, holdings, cash>>
    /\ trade_history' = [trade_history EXCEPT ![a] =
                            IF LoadedTrades(a) # <<>>
                            THEN Reverse(LoadedTrades(a)) ELSE @]
    /\ taskPc' = [taskPc EXCEPT ![a] = "restored"]
    /\ UNCHANGED <<schedPc, dayIdx, saved_trade_counts, saved_daily_counts,
                   start_date, rollbackTo>>
    /\ StartupFrame

\* find_first_continuous_data_end, and rollback_to_date(first_gap_date)
ContinuityStep(a) ==
    LET gap == FirstGapDate(daily_assets[a])
    IN  IF gap # 0
        THEN /\ SetPortfolio(a, RollbackToDate(Portfolio(a), gap))
             /\ rollbackTo' = [rollbackTo EXCEPT ![a] = gap]
        ELSE UNCHANGED <<agentVars, rollbackTo>>

\* detect_data_corruption, and rollback_to_date(corrupted_date) when a valid
\* date lies before it, else the reset
CorruptionStep(a) ==
    LET bad == CorruptedDate(Portfolio(a))
    IN  IF bad = 0 THEN UNCHANGED <<agentVars, rollbackTo>>
        ELSE IF \E i \in DOMAIN daily_assets[a] : daily_assets[a][i].date < bad
             THEN /\ SetPortfolio(a, RollbackToDate(Portfolio(a), bad))
                  /\ rollbackTo' = [rollbackTo EXCEPT ![a] = bad]
             ELSE /\ SetPortfolio(a, ResetPortfolio)
                  /\ rollbackTo' = [rollbackTo EXCEPT ![a] = 0]

\* run_arena, right after the restore of the agent
ApiContinuity(a) ==
    /\ schedPc = "restore_agents"
    /\ taskPc[a] = "restored"
    /\ IF HasData(a) THEN ContinuityStep(a) ELSE UNCHANGED <<agentVars, rollbackTo>>
    /\ taskPc' = [taskPc EXCEPT ![a] = "gap_checked"]
    /\ UNCHANGED <<schedPc, dayIdx, saved_trade_counts, saved_daily_counts, start_date>>
    /\ StartupFrame

ApiCorruption(a) ==
    /\ schedPc = "restore_agents"
    /\ taskPc[a] = "gap_checked"
    /\ IF HasData(a) THEN CorruptionStep(a) ELSE UNCHANGED <<agentVars, rollbackTo>>
    /\ taskPc' = [taskPc EXCEPT ![a] = "checked"]
    /\ UNCHANGED <<schedPc, dayIdx, saved_trade_counts, saved_daily_counts, start_date>>
    /\ StartupFrame

\* run_arena calls arena.run_arena_parallel(start_date, end_date, ...)
StartManager ==
    /\ schedPc = "restore_agents"
    /\ \A a \in Agents : taskPc[a] = "checked"
    /\ schedPc' = "manager_init"
    /\ UNCHANGED <<dayIdx, taskPc, agentVars, saved_trade_counts,
                   saved_daily_counts, start_date, rollbackTo>>
    /\ StartupFrame

\* run_arena_parallel, "for agent_info in self.agents": a fresh agent is
\* initialised, an agent with history is checked once more
ManagerContinuity(a) ==
    /\ schedPc = "manager_init"
    /\ taskPc[a] = "checked"
    /\ \A b \in Before(a) : taskPc[b] = "ready"
    /\ IF HasHistory(a) THEN ContinuityStep(a)
       ELSE /\ SetPortfolio(a, ResetPortfolio)
            /\ rollbackTo' = [rollbackTo EXCEPT ![a] = 0]
    /\ taskPc' = [taskPc EXCEPT ![a] = "m_gap_checked"]
    /\ UNCHANGED <<schedPc, dayIdx, saved_trade_counts, saved_daily_counts, start_date>>
    /\ StartupFrame

ManagerCorruption(a) ==
    /\ schedPc = "manager_init"
    /\ taskPc[a] = "m_gap_checked"
    /\ IF HasHistory(a) THEN CorruptionStep(a) ELSE UNCHANGED <<agentVars, rollbackTo>>
    /\ taskPc' = [taskPc EXCEPT ![a] = "ready"]
    /\ UNCHANGED <<schedPc, dayIdx, saved_trade_counts, saved_daily_counts, start_date>>
    /\ StartupFrame

\* trade_dates = _get_trade_dates(start_date, end_date): the loop is about to
\* take its first date
GetTradeDates ==
    /\ schedPc = "manager_init"
    /\ \A a \in Agents : taskPc[a] = "ready"
    /\ schedPc' = "loop_top"
    /\ dayIdx' = start_date
    /\ taskPc' = [a \in Agents |-> "none"]
    /\ UNCHANGED <<agentVars, saved_trade_counts, saved_daily_counts,
                   start_date, rollbackTo>>
    /\ StartupFrame

NextResume ==
    \/ LoadSession
    \/ \E a \in Agents : RestoreAgent(a)
    \/ \E a \in Agents : ApiContinuity(a)
    \/ \E a \in Agents : ApiCorruption(a)
    \/ StartManager
    \/ \E a \in Agents : ManagerContinuity(a)
    \/ \E a \in Agents : ManagerCorruption(a)
    \/ GetTradeDates

SpecResume == InitResume /\ [][NextResume]_vars

\* -------------------------------------- properties of resume and rollback ----
RolledBack(a) == rollbackTo[a] # 0

\* The shares and the money of a trade, whichever shape it has
TradeSharesOf(t) == IF "volume" \in DOMAIN t THEN t.volume ELSE t.amount
TradeMoneyOf(t) == IF "volume" \in DOMAIN t THEN t.amount ELSE t.total

\* The trades in the order they were made: date by date, the sells of a date
\* before its buys
RECURSIVE Chronological(_, _, _)
Chronological(th, d, last) ==
    IF d > last THEN <<>>
    ELSE SelectSeq(th, LAMBDA t : TradeDateOf(t) = d /\ t.action = "sell")
         \o SelectSeq(th, LAMBDA t : TradeDateOf(t) = d /\ t.action = "buy")
         \o Chronological(th, d + 1, last)

\* The replay the specification describes: a buy merges into the holding with
\* the average cost per share, a sell reduces the shares or deletes the holding
RECURSIVE ShareReplay(_, _)
ShareReplay(ts, h) ==
    IF ts = <<>> THEN h
    ELSE LET t == Head(ts)
             code == TradeCodeOf(t)
             n == TradeSharesOf(t)
         IN  IF t.action = "buy"
             THEN ShareReplay(Tail(ts),
                     [k \in DOMAIN h \cup {code} |->
                         IF k # code THEN h[k]
                         ELSE IF code \in DOMAIN h
                              THEN [amount |-> h[code].amount + n,
                                    cost |-> (h[code].amount * h[code].cost + n * t.price)
                                                \div (h[code].amount + n)]
                              ELSE [amount |-> n, cost |-> t.price]])
             ELSE IF code \in DOMAIN h
                  THEN IF h[code].amount - n <= 0
                       THEN ShareReplay(Tail(ts), [k \in DOMAIN h \ {code} |-> h[k]])
                       ELSE ShareReplay(Tail(ts), [h EXCEPT ![code].amount = @ - n])
                  ELSE ShareReplay(Tail(ts), h)

\* initial_capital - sum of the buys' total costs + sum of the sells' net income
RECURSIVE CashOfTrades(_)
CashOfTrades(ts) ==
    IF ts = <<>> THEN InitialCapital
    ELSE LET t == ts[Len(ts)]
             m == TradeMoneyOf(t)
         IN  CashOfTrades(SubSeq(ts, 1, Len(ts) - 1))
             + (IF t.action = "buy" THEN -(m + CommissionOf(m)) ELSE NetIncome(m))

BuyPrices(a, c) ==
    {trade_history[a][i].price : i \in {j \in DOMAIN trade_history[a] :
        /\ trade_history[a][j].action = "buy"
        /\ TradeCodeOf(trade_history[a][j]) = c}}

\* C14: an agent's cash is never negative: after the restore of a resumed
\* session, after a rollback, after a reset.
C14_CashNonNegative ==
    \A a \in Agents : cash[a] >= 0

\* C15: every holding has a positive number of shares that is a multiple of
\* 100 and a positive cost, and the cost is a cost per share: it lies between
\* the lowest and the highest price the agent bought the code at.
C15_HoldingShape ==
    \A a \in Agents :
        \A c \in DOMAIN holdings[a] :
            /\ holdings[a][c].amount > 0
            /\ holdings[a][c].amount % 100 = 0
            /\ holdings[a][c].cost > 0
            /\ \E lo \in BuyPrices(a, c) : lo <= holdings[a][c].cost
            /\ \E hi \in BuyPrices(a, c) : hi >= holdings[a][c].cost

\* C17: after rollback_to_date(T) the agent holds no trade and no daily point
\* dated T or later, and neither does the session data a restart would load.
C17_NothingFromT ==
    \A a \in Agents :
        RolledBack(a) =>
            /\ \A i \in DOMAIN daily_assets[a] : daily_assets[a][i].date < rollbackTo[a]
            /\ \A i \in DOMAIN trade_history[a] :
                  TradeDateOf(trade_history[a][i]) < rollbackTo[a]
            /\ \A i \in DOMAIN LoadedDaily(a) : LoadedDaily(a)[i].date < rollbackTo[a]
            /\ \A i \in DOMAIN LoadedTrades(a) :
                  LoadedTrades(a)[i].trade_date < rollbackTo[a]

\* C18: after rollback_to_date(T) the holdings are the chronological replay of
\* the surviving trades: the same codes, the same shares, the average cost per
\* share.
C18_ReplayedHoldings ==
    \A a \in Agents :
        RolledBack(a) =>
            LET h == ShareReplay(Chronological(trade_history[a], 0, rollbackTo[a]), <<>>)
            IN  /\ DOMAIN holdings[a] = DOMAIN h
                /\ \A c \in DOMAIN h :
                      /\ holdings[a][c].amount = h[c].amount
                      /\ holdings[a][c].cost = h[c].cost

\* C19: after rollback_to_date(T) the cash is the initial capital minus the
\* total costs of the surviving buys plus the net income of the surviving sells.
C19_ReplayedCash ==
    \A a \in Agents :
        RolledBack(a) => cash[a] = CashOfTrades(trade_history[a])

\* C20: when the start-up rolled an agent back to T, the first date the loop
\* executes is T.
C20_ResumesFromT ==
    \A a \in Agents :
        (schedPc = "loop_top" /\ RolledBack(a)) => dayIdx = rollbackTo[a]


\* ------------------------------------- one day on top of earlier days ----
\* Number of the trade date whose pipeline runs
TradeDays == 3

\* The buy answers of the earlier dates
PriorBuys ==
    { <<>>,
      <<BuyDec("Y", 150), BuyDec("Y", 100)>>,
      <<BuyDec("X", 300)>>,
      <<BuyDec("U", 100), BuyDec("Y", 200)>>,
      <<BuyDec("U", 200)>> }

\* Every agent's worker has passed the head of run_single_day for date d
\* (pre_exec_* saved, state built, pre_state taken) after d - 1 dates that
\* ran without an error and were saved by the callback.
InitTrade ==
    \E d \in 1..TradeDays :
    \E buys \in [Agents -> [1..(d - 1) -> PriorBuys]] :
        LET p == [a \in Agents |-> PortfolioAfter(d - 1, d, buys[a], FALSE)]
        IN  /\ shouldStop = FALSE
            /\ schedPc = "wait_primary"
            /\ dayIdx = d
            /\ notDone = {}
            /\ agent_states = [a \in Agents |-> [completed |-> FALSE, error |-> "none"]]
            /\ agent_errors = [a \in Agents |-> "none"]
            /\ taskPc = [a \in Agents |-> "update_prices"]
            /\ taskDate = [a \in Agents |-> d]
            /\ taskError = [a \in Agents |-> "none"]
            /\ cash = [a \in Agents |-> p[a].cash]
            /\ holdings = [a \in Agents |-> p[a].holdings]
            /\ total_assets = [a \in Agents |-> p[a].total_assets]
            /\ trade_history = [a \in Agents |-> p[a].trade_history]
            /\ daily_assets = [a \in Agents |-> p[a].daily_assets]
            /\ st = [a \in Agents |-> [NoState EXCEPT !.cash = p[a].cash,
                                                  !.total_assets = p[a].total_assets]]
            /\ pre_state = p
            /\ pre_exec = [a \in Agents |-> [assets |-> p[a].total_assets,
                                              daily_assets |-> p[a].daily_assets]]
            /\ saved_trade_counts = [a \in Agents |-> Len(PersistedTrades(p[a]))]
            /\ saved_daily_counts = [a \in Agents |-> Len(p[a].daily_assets)]
            /\ dbTrades = [a \in Agents |-> PersistedTrades(p[a])]
            /\ dbDaily = [a \in Agents |-> PersistedDaily(p[a])]
            /\ dbHoldings = [a \in Agents |-> PersistedHoldings(p[a])]
            /\ start_date = 1
            /\ rollbackTo = [a \in Agents |-> 0]
            /\ session = [current_date |-> d - 1, status |-> "running"]
            /\ submitted = [i \in 1..NumDays |-> IF i <= d THEN Agents ELSE {}]
            /\ returnedDays = [a \in Agents |-> 1..(d - 1)]
            /\ severeDays = [a \in Agents |-> {}]
            /\ failedDays = [a \in Agents |-> {}]
            /\ stoppedMid = [a \in Agents |-> {}]
            /\ dayStart = p
            /\ ServiceInit
            /\ ranking_context = [a \in Agents |-> [b \in Agents |-> RankEntry(p[b])]]

NextTrade ==
    \E a \in Agents :
        \/ UpdatePrices(a)
        \/ EvaluateHoldings(a)
        \/ ExecuteSells(a)
        \/ FindCandidates(a)
        \/ AnalyzeCandidates(a)
        \/ ExecuteBuys(a)
        \/ RecordDaily(a)
        \/ Reflect(a)

SpecTrade == InitTrade /\ [][NextTrade]_vars

\* ------------------------------------------- properties of buys and sells ----
\* The trades of the running date, by their index in trade_history
TodaysBuys(a) ==
    {i \in TradesOn(trade_history[a], taskDate[a]) : trade_history[a][i].action = "buy"}
TodaysSells(a) ==
    {i \in TradesOn(trade_history[a], taskDate[a]) : trade_history[a][i].action = "sell"}

\* The holdings execute_buys found: those of the start of the day (pre_state
\* keeps the references) that execute_sells did not sell
HeldBeforeBuys(a, c) ==
    /\ c \in DOMAIN pre_state[a].holdings
    /\ \A i \in TodaysSells(a) : trade_history[a][i].code # c

\* C28: a buy of a code that is already held merges into the holding: the
\* amounts add up and the cost is the amount-weighted average cost per share.
C28_BuyMerges ==
    \A a \in Agents :
        taskPc[a] = "record_daily" =>
            \A i \in TodaysBuys(a) :
                LET t == trade_history[a][i]
                    old == pre_state[a].holdings[t.code]
                IN  HeldBeforeBuys(a, t.code) =>
                        /\ t.code \in DOMAIN holdings[a]
                        /\ holdings[a][t.code].amount = old.amount + t.amount
                        /\ holdings[a][t.code].cost * (old.amount + t.amount)
                              = old.amount * old.cost + t.amount * t.price

\* The 'amount' an LLM sell decision carries (the prompt asks for one and
\* advises to sell a part); a forced sell carries the whole amount.
AskedAmount == 100

\* C29: a sell decision for fewer shares than held leaves the holding in
\* place, with the sold amount taken off and the cost per share unchanged.
C29_PartialSell ==
    \A a \in Agents :
        (taskPc[a] = "find_candidates" /\ ForcedSells(pre_state[a].holdings) = <<>>) =>
            \A i \in TodaysSells(a) :
                LET t == trade_history[a][i]
                    old == pre_state[a].holdings[t.code]
                IN  AskedAmount < old.amount =>
                        /\ t.amount = AskedAmount
                        /\ t.code \in DOMAIN holdings[a]
                        /\ holdings[a][t.code].amount = old.amount - AskedAmount
                        /\ holdings[a][t.code].cost = old.cost

\* total_cost of a buy and the cash execute_buys held before it: the cash
\* after the node plus the total costs of that buy and of the later ones
BuyTotalCost(t) == t.total + t.commission
CashBeforeBuy(a, i) ==
    st[a].cash + SumOver({j \in TodaysBuys(a) : j >= i},
                         [j \in TodaysBuys(a) |-> BuyTotalCost(trade_history[a][j])])

\* C30: the total cost of every executed buy is at most 95% of the cash that
\* was available before that buy.
C30_BuyCeiling ==
    \A a \in Agents :
        taskPc[a] = "record_daily" =>
            \A i \in TodaysBuys(a) :
                BuyTotalCost(trade_history[a][i]) * 20 <= CashBeforeBuy(a, i) * 19

\* ------------------------------------------------ properties of the session ----
\* C24: the session is marked completed only when its progress has reached
\* the last trade date and every agent's task of that date has returned; a
\* run that shouldStop ended early leaves it running.
C24_CompletedAtEnd ==
    session.status = "completed" =>
        /\ session.current_date = NumDays
        /\ \A a \in Agents : NumDays \in returnedDays[a]

C23_HoldingsFromTrades ==
    \A a \in Agents :
        taskPc[a] = "restored" =>
            LET h == ShareReplay(Chronological(LoadedTrades(a), 0, MaxPersisted), <<>>)
            IN  /\ DOMAIN holdings[a] = DOMAIN h
                /\ \A c \in DOMAIN h :
                      /\ holdings[a][c].amount = h[c].amount
                      /\ holdings[a][c].cost = h[c].cost

\* A daily point and a trade as their field values, whatever the names of the
\* fields: a point without a 'cash' key has no cash value (-1)
DailyValues(e) ==
    <<e.date, EntryAssets(e), IF "cash" \in DOMAIN e THEN e.cash ELSE -1>>
TradeValues(t) ==
    <<TradeDateOf(t), TradeCodeOf(t), t.action, TradeSharesOf(t), t.price,
      TradeMoneyOf(t), t.commission>>

\* C22: after the restart every agent holds the daily points and the trades
\* it held when the run stopped: the same records in the same order with the
\* same field values.
C22_ResumeIdempotent ==
    \A a \in Agents :
        taskPc[a] = "restored" =>
            /\ [i \in DOMAIN daily_assets[a] |-> DailyValues(daily_assets[a][i])]
                  = [i \in DOMAIN dayStart[a].daily_assets |->
                        DailyValues(dayStart[a].daily_assets[i])]
            /\ [i \in DOMAIN trade_history[a] |-> TradeValues(trade_history[a][i])]
                  = [i \in DOMAIN dayStart[a].trade_history |->
                        TradeValues(dayStart[a].trade_history[i])]

\* --------------------------------------------- a session of a killed process ----
\* Where the kill found the agent's task of the last date k: still running
\* (nothing of k saved); inside update_callback after save_trade and
\* save_daily_assets; after update_session_progress; after save_holdings
\* (callback done).  Every statement of the callback commits on its own.
KillStages == {"running", "daily", "progress", "done"}

\* The first date a kill is drawn for: the session row is created with
\* current_date = start_date, which the first callback overwrites
FirstKillDate == 2

\* The buy answers of the killed process
KillBuys == {<<>>, <<BuyDec("X", 300)>>}

InitKill ==
    \E k \in FirstKillDate..MaxPersisted :
    \E buys \in [Agents -> [1..k -> KillBuys]] :
    \E stage \in [Agents -> KillStages] :
        LET prev == [a \in Agents |-> PortfolioAfter(k - 1, k, buys[a], FALSE)]
            cur == [a \in Agents |-> PortfolioAfter(k, k, buys[a], FALSE)]
            logged == [a \in Agents |-> IF stage[a] = "running" THEN prev[a] ELSE cur[a]]
            held == [a \in Agents |-> IF stage[a] = "done" THEN cur[a] ELSE prev[a]]
        IN  /\ dbTrades = [a \in Agents |-> PersistedTrades(logged[a])]
            /\ dbDaily = [a \in Agents |-> PersistedDaily(logged[a])]
            /\ dbHoldings = [a \in Agents |-> PersistedHoldings(held[a])]
            /\ session = [current_date |->
                             IF \E a \in Agents : stage[a] \in {"progress", "done"}
                             THEN k ELSE k - 1,
                          status |-> "running"]
            /\ shouldStop = FALSE
            /\ schedPc = "startup"
            /\ dayIdx = 1
            /\ notDone = {}
            /\ agent_states = [a \in Agents |-> [completed |-> FALSE, error |-> "none"]]
            /\ agent_errors = [a \in Agents |-> "none"]
            /\ taskPc = [a \in Agents |-> "none"]
            /\ taskDate = [a \in Agents |-> 0]
            /\ taskError = [a \in Agents |-> "none"]
            /\ cash = [a \in Agents |-> InitialCapital]
            /\ holdings = [a \in Agents |-> <<>>]
            /\ total_assets = [a \in Agents |-> InitialCapital]
            /\ trade_history = [a \in Agents |-> <<>>]
            /\ daily_assets = [a \in Agents |-> <<>>]
            /\ st = [a \in Agents |-> NoState]
            /\ pre_state = [a \in Agents |-> NoSnapshot]
            /\ pre_exec = [a \in Agents |-> NoPreExec]
            /\ saved_trade_counts = [a \in Agents |-> 0]
            /\ saved_daily_counts = [a \in Agents |-> 0]
            /\ submitted = [d \in 1..NumDays |-> {}]
            /\ returnedDays = [a \in Agents |-> {}]
            /\ severeDays = [a \in Agents |-> {}]
            /\ failedDays = [a \in Agents |-> {}]
            /\ stoppedMid = [a \in Agents |-> {}]
            /\ dayStart = logged
            /\ start_date = 1
            /\ rollbackTo = [a \in Agents |-> 0]
            /\ ServiceInit
            /\ ranking_context = [a \in Agents |-> NoRanking]

SpecKill == InitKill /\ [][NextResume]_vars

\* The dates of the points a list of daily_assets (rows or entries) holds
DatesOf(dl) == {dl[i].date : i \in DOMAIN dl}

\* C21: after a kill the loop resumes at the trade date after the latest
\* date of the session's daily_assets, whatever current_date says; by then
\* every agent still holds a point for every date it had completed, and no
\* date it holds or has saved is executed again.
C21_ResumeAfterKill ==
    schedPc = "loop_top" =>
        /\ dayIdx = LatestTradeDate + 1
        /\ \A a \in Agents :
              /\ DatesOf(dbDaily[a]) \subseteq DatesOf(daily_assets[a])
              /\ \A d \in DatesOf(dbDaily[a]) \cup DatesOf(daily_assets[a]) : d < dayIdx

\* ------------------------------------- BaostockProviderV2.get_daily_price ----
\* The agents' worker threads ask for the price of the same (ts_code,
\* trade_date) while _daily_cache has no entry for it. A thread's event is named
\* after the thread that created it.
FetchOutcomes == {"row", "empty", "error"}

ProviderFrame == UNCHANGED <<arenaVars, principleVars, poolVars, llmVars>>

\* the callers: every thread enters get_daily_price for the key
RequestPrice ==
    /\ \A t \in Threads : thPc[t] = "idle"
    /\ daily_cache = NotCached
    /\ thPc' = [t \in Threads |-> "check_cache"]
    /\ UNCHANGED <<thEvent, thMine, thRows, thRet, daily_cache, pending_queries,
                   eventSet, fetches, waitTimedOut>>
    /\ ProviderFrame

\* lines 319-321: with _cache_lock: return the cached value if there is one
CheckCache(t) ==
    /\ thPc[t] = "check_cache"
    /\ IF daily_cache # NotCached
         THEN /\ thPc' = [thPc EXCEPT ![t] = "done"]
              /\ thRet' = [thRet EXCEPT ![t] = daily_cache]
         ELSE /\ thPc' = [thPc EXCEPT ![t] = "check_pending"]
              /\ UNCHANGED thRet
    /\ UNCHANGED <<thEvent, thMine, thRows, daily_cache, pending_queries,
                   eventSet, fetches, waitTimedOut>>
    /\ ProviderFrame

\* lines 324-335: with _pending_queries_lock: take the pending event of the key
\* or register a new one
CheckPending(t) ==
    /\ thPc[t] = "check_pending"
    /\ IF pending_queries # NoEvent
         THEN /\ thEvent' = [thEvent EXCEPT ![t] = pending_queries]
              /\ thMine' = [thMine EXCEPT ![t] = FALSE]
              /\ UNCHANGED pending_queries
         ELSE /\ thEvent' = [thEvent EXCEPT ![t] = t]
              /\ thMine' = [thMine EXCEPT ![t] = TRUE]
              /\ pending_queries' = t
    /\ thPc' = [thPc EXCEPT ![t] = "test_event"]
    /\ UNCHANGED <<thRows, thRet, daily_cache, eventSet, fetches, waitTimedOut>>
    /\ ProviderFrame

\* line 338: if event and not is_my_query and not event.is_set()
TestEvent(t) ==
    /\ thPc[t] = "test_event"
    /\ thPc' = [thPc EXCEPT ![t] =
                  IF thEvent[t] # NoEvent /\ ~thMine[t] /\ thEvent[t] \notin eventSet
                    THEN "wait" ELSE "fetch"]
    /\ UNCHANGED <<thEvent, thMine, thRows, thRet, daily_cache, pending_queries,
                   eventSet, fetches, waitTimedOut>>
    /\ ProviderFrame

\* lines 340-347: event.wait returned True; the cache is read again, and on a hit
\* the key is taken out of _pending_queries and the cached value returned
WaitReturns(t) ==
    /\ thPc[t] = "wait"
    /\ thEvent[t] \in eventSet
    /\ IF daily_cache # NotCached
         THEN /\ pending_queries' = NoEvent
              /\ thPc' = [thPc EXCEPT ![t] = "done"]
              /\ thRet' = [thRet EXCEPT ![t] = daily_cache]
         ELSE /\ thPc' = [thPc EXCEPT ![t] = "fetch"]
              /\ UNCHANGED <<pending_queries, thRet>>
    /\ UNCHANGED <<thEvent, thMine, thRows, daily_cache, eventSet, fetches,
                   waitTimedOut>>
    /\ ProviderFrame

\* lines 348-354: event.wait(timeout=30.0) returned False
WaitTimesOut(t) ==
    /\ thPc[t] = "wait"
    /\ thEvent[t] \notin eventSet
    /\ pending_queries' = NoEvent
    /\ thEvent' = [thEvent EXCEPT ![t] = NoEvent]
    /\ thMine' = [thMine EXCEPT ![t] = TRUE]
    /\ waitTimedOut' = TRUE
    /\ thPc' = [thPc EXCEPT ![t] = "fetch"]
    /\ UNCHANGED <<thRows, thRet, daily_cache, eventSet, fetches>>
    /\ ProviderFrame

\* lines 357-375: rows = self._query_with_retry(_fetch)
Fetch(t) ==
    /\ thPc[t] = "fetch"
    /\ \E o \in FetchOutcomes :
          /\ fetches' = Append(fetches, [by |-> t, outcome |-> o])
          /\ thRows' = [thRows EXCEPT ![t] = o]
    /\ thPc' = [thPc EXCEPT ![t] = "fetched"]
    /\ UNCHANGED <<thEvent, thMine, thRet, daily_cache, pending_queries,
                   eventSet, waitTimedOut>>
    /\ ProviderFrame

\* lines 378-393 and 424-431 (no row: result None), lines 395-413 (a row: the
\* result is stored in _daily_cache)
\* Variant: only a query that yields a row is completed
StoreResult_RowOnly(t) ==
    /\ thPc[t] = "fetched"
    /\ thRows[t] = "row"
    /\ daily_cache' = "row"
    /\ thRet' = [thRet EXCEPT ![t] = "row"]
    /\ thPc' = [thPc EXCEPT ![t] = "notify"]
    /\ UNCHANGED <<thEvent, thMine, thRows, pending_queries, eventSet, fetches,
                   waitTimedOut>>
    /\ ProviderFrame
StoreResult(t) ==
    /\ thPc[t] = "fetched"
    /\ IF thRows[t] = "row"
         THEN /\ daily_cache' = "row"
              /\ thRet' = [thRet EXCEPT ![t] = "row"]
         ELSE /\ thRet' = [thRet EXCEPT ![t] = "None"]
              /\ UNCHANGED daily_cache
    /\ thPc' = [thPc EXCEPT ![t] = "notify"]
    /\ UNCHANGED <<thEvent, thMine, thRows, pending_queries, eventSet, fetches,
                   waitTimedOut>>
    /\ ProviderFrame

\* lines 416-419 (380-383, 388-391, 426-429): if event: with
\* _pending_queries_lock: del _pending_queries[key]
Unregister(t) ==
    /\ thPc[t] = "notify"
    /\ IF thEvent[t] # NoEvent
         THEN /\ pending_queries' = NoEvent
              /\ thPc' = [thPc EXCEPT ![t] = "set_event"]
         ELSE /\ thPc' = [thPc EXCEPT ![t] = "done"]
              /\ UNCHANGED pending_queries
    /\ UNCHANGED <<thEvent, thMine, thRows, thRet, daily_cache, eventSet, fetches,
                   waitTimedOut>>
    /\ ProviderFrame

\* line 420 (384, 392, 430): event.set(); return
SetEvent(t) ==
    /\ thPc[t] = "set_event"
    /\ eventSet' = eventSet \cup {thEvent[t]}
    /\ thPc' = [thPc EXCEPT ![t] = "done"]
    /\ UNCHANGED <<thEvent, thMine, thRows, thRet, daily_cache, pending_queries,
                   fetches, waitTimedOut>>
    /\ ProviderFrame

NextPrice ==
    \/ RequestPrice
    \/ \E t \in Threads :
          \/ CheckCache(t)
          \/ CheckPending(t)
          \/ TestEvent(t)
          \/ WaitReturns(t)
          \/ WaitTimesOut(t)
          \/ Fetch(t)
          \/ StoreResult(t)
          \/ Unregister(t)
          \/ SetEvent(t)

SpecPrice == Init /\ [][NextPrice]_vars

\* the value the first upstream query led to
FirstResult ==
    IF fetches = <<>> THEN "unset"
    ELSE IF fetches[1].outcome = "row" THEN "row" ELSE "None"

\* C26: when several threads ask for the same uncached (code, date) at the same
\* time and no wait of 30 seconds times out, one upstream query is issued and
\* every requester returns the result of that query.
C26_SingleFetch ==
    ~waitTimedOut =>
        /\ Len(fetches) <= 1
        /\ \A t \in Threads : thPc[t] = "done" => thRet[t] = FirstResult

\* ------------------------- agent_principles: save_agent_reflection, readers ----
\* Every call opens a connection of its own (sqlite3.connect): a reader sees the
\* committed rows only, and one write transaction is open at a time.
MaxReflections == 2
MaxPrinciples == 2

PrincipleFrame == UNCHANGED <<arenaVars, providerVars, poolVars, llmVars>>

\* lines 737-759: the transaction begins with INSERT INTO agent_reflections;
\* n is the length of reflection_data.get('trading_principles', [])
BeginReflection(a, n) ==
    /\ txOwner = NoWriter
    /\ reflCount[a] < MaxReflections
    /\ txOwner' = a
    /\ txRows' = agent_principles
    /\ txTodo' = n
    /\ reflCount' = [reflCount EXCEPT ![a] = @ + 1]
    /\ UNCHANGED <<agent_principles, observed>>
    /\ PrincipleFrame

\* lines 762-766: UPDATE agent_principles SET is_active = 0 for the agent
Deactivated(rows, a) ==
    [i \in 1..Len(rows) |->
        IF rows[i].model_name = a THEN [rows[i] EXCEPT !.is_active = FALSE]
        ELSE rows[i]]

\* lines 769-775: one INSERT per principle, is_active = 1
Inserted(rows, a, n) ==
    rows \o [i \in 1..n |-> [model_name |-> a, reflection |-> reflCount[a],
                             is_active |-> TRUE]]

\* lines 762-777: the old rows are deactivated, the new ones inserted, and
\* conn.commit() publishes both
CommitReflection ==
    /\ txOwner # NoWriter
    /\ agent_principles' = Inserted(Deactivated(txRows, txOwner), txOwner, txTodo)
    /\ txOwner' = NoWriter
    /\ txRows' = <<>>
    /\ txTodo' = 0
    /\ UNCHANGED <<reflCount, observed>>
    /\ PrincipleFrame

\* line 739: an execute that raises leaves the with block, which rolls back
AbortReflection ==
    /\ txOwner # NoWriter
    /\ txOwner' = NoWriter
    /\ txRows' = <<>>
    /\ txTodo' = 0
    /\ UNCHANGED <<agent_principles, reflCount, observed>>
    /\ PrincipleFrame

ActiveRows(a) ==
    {i \in 1..Len(agent_principles) :
        agent_principles[i].model_name = a /\ agent_principles[i].is_active}

\* lines 790-798: SELECT principle ... WHERE is_active = 1
GetAgentPrinciples(a) ==
    /\ observed' = [observed EXCEPT ![a] =
          [had |-> \E i \in 1..Len(agent_principles) :
                       agent_principles[i].model_name = a,
           sets |-> {agent_principles[i].reflection : i \in ActiveRows(a)},
           rows |-> Cardinality(ActiveRows(a)),
           read |-> TRUE]]
    /\ UNCHANGED <<agent_principles, txOwner, txRows, txTodo, reflCount>>
    /\ PrincipleFrame

NextPrinciples ==
    \/ \E a \in Agents : \E n \in 0..MaxPrinciples : BeginReflection(a, n)
    \/ CommitReflection
    \/ AbortReflection
    \/ \E a \in Agents : GetAgentPrinciples(a)

SpecPrinciples == Init /\ [][NextPrinciples]_vars

\* C27: a reader of an agent that has saved principles sees the principles of
\* exactly one reflection, never none, whenever it reads.
C27_OneActiveSet ==
    \A a \in Agents :
        observed[a].had => Cardinality(observed[a].sets) = 1

\* the threads whose call is between registering an event and unregistering it
InFlight == {t \in Threads : thPc[t] \in {"test_event", "fetch", "fetched", "notify"}
                             /\ thEvent[t] = t}

\* C40: an entry of _pending_queries is deleted only by the thread that
\* registered it while that thread's query is in flight, and no entry is left
\* once every request for the key has returned.
C40_PendingConsistent ==
    /\ [][(pending_queries \in InFlight /\ pending_queries' = NoEvent)
            => thPc'[pending_queries] # thPc[pending_queries]]_vars
    /\ []((\A t \in Threads : thPc[t] = "done") => pending_queries = NoEvent)

\* The interpreter schedules every thread that can take a step, and a wait with
\* a timeout returns.
SpecPriceLive ==
    /\ SpecPrice
    /\ WF_vars(RequestPrice)
    /\ \A t \in Threads :
          WF_vars(CheckCache(t) \/ CheckPending(t) \/ TestEvent(t) \/ WaitReturns(t)
                  \/ WaitTimesOut(t) \/ Fetch(t) \/ StoreResult(t) \/ Unregister(t)
                  \/ SetEvent(t))

\* C33: every request for a daily bar returns, whatever the owner's query
\* yields (a row, no row, an exception) and whether a waiter is woken or its
\* wait of 30 seconds runs out.
C33_EveryRequestReturns ==
    \A t \in Threads : (thPc[t] = "check_cache") ~> (thPc[t] = "done")

\* every request has returned, one of them after its wait timed out and one
\* query without a row
C33_Witness ==
    /\ \A t \in Threads : thPc[t] = "done"
    /\ waitTimedOut
    /\ \E i \in 1..Len(fetches) : fetches[i].outcome # "row"

\* C38: an agent's task for a date after the first is submitted and runs only
\* after the same agent's task for the date before has returned, also when that
\* task was declared severely timed out.
C38_OneTaskPerAgent ==
    \A a \in Agents :
        ((taskPc[a] = "submitted" \/ InPipeline(a)) /\ taskDate[a] > 1) =>
            (taskDate[a] - 1) \in returnedDays[a]

\* an agent runs the second date after its own task of the first date had been
\* declared severely timed out
C38_Witness ==
    \E a \in Agents : InPipeline(a) /\ taskDate[a] = 2 /\ 1 \in severeDays[a]

\* the portfolio an agent held at the barrier before the date now running
AtLastBarrier(b) == IF taskPc[b] = "submitted" THEN Portfolio(b) ELSE dayStart[b]

\* C36: the rankings given to an agent's task for its prompts show every agent
\* as it stood at the barrier before the date, never with part of the date's
\* own trading.
C36_RankingAtBarrier ==
    \A a \in Agents :
        InPipeline(a) =>
            \A b \in Agents : ranking_context[a][b] = RankEntry(AtLastBarrier(b))

\* ----------------------------- detect_data_corruption on two stored points ----
\* The unfinished session holds two daily rows per agent and no trade: the dates
\* are 1, 2 or 3 calendar days apart and the second value is the first one
\* changed by a round percentage on either side of the limits.
DetectDates == {<<1, 2>>, <<3, 4>>, <<3, 5>>, <<3, 6>>}
DetectAssets == {v * 100 * MoneyScale : v \in {69, 70, 79, 80, 87, 88, 100, 112, 113,
                                               120, 121, 130, 131}}

InitDetect ==
    \E ds \in [Agents -> DetectDates] :
    \E ta \in [Agents -> DetectAssets] :
        LET rows == [a \in Agents |->
                        <<[date |-> ds[a][1], assets |-> InitialCapital],
                          [date |-> ds[a][2], assets |-> ta[a]]>>]
            logged == [a \in Agents |->
                        [cash |-> ta[a], holdings |-> <<>>, total_assets |-> ta[a],
                         trade_history |-> <<>>,
                         daily_assets |->
                            <<[date |-> ds[a][1], total_assets |-> InitialCapital,
                               cash |-> InitialCapital],
                              [date |-> ds[a][2], total_assets |-> ta[a],
                               cash |-> ta[a]]>>]]
            last == CHOOSE d \in {ds[a][2] : a \in Agents} :
                        \A a \in Agents : ds[a][2] <= d
        IN  /\ dbTrades = [a \in Agents |-> <<>>]
            /\ dbDaily = rows
            /\ dbHoldings = [a \in Agents |-> <<>>]
            /\ session = [current_date |-> last, status |-> "running"]
            /\ shouldStop = FALSE
            /\ schedPc = "startup"
            /\ dayIdx = 1
            /\ notDone = {}
            /\ agent_states = [a \in Agents |-> [completed |-> FALSE, error |-> "none"]]
            /\ agent_errors = [a \in Agents |-> "none"]
            /\ taskPc = [a \in Agents |-> "none"]
            /\ taskDate = [a \in Agents |-> 0]
            /\ taskError = [a \in Agents |-> "none"]
            /\ cash = [a \in Agents |-> InitialCapital]
            /\ holdings = [a \in Agents |-> <<>>]
            /\ total_assets = [a \in Agents |-> InitialCapital]
            /\ trade_history = [a \in Agents |-> <<>>]
            /\ daily_assets = [a \in Agents |-> <<>>]
            /\ st = [a \in Agents |-> NoState]
            /\ pre_state = [a \in Agents |-> NoSnapshot]
            /\ pre_exec = [a \in Agents |-> NoPreExec]
            /\ saved_trade_counts = [a \in Agents |-> 0]
            /\ saved_daily_counts = [a \in Agents |-> 0]
            /\ submitted = [d \in 1..NumDays |-> {}]
            /\ returnedDays = [a \in Agents |-> {}]
            /\ severeDays = [a \in Agents |-> {}]
            /\ failedDays = [a \in Agents |-> {}]
            /\ stoppedMid = [a \in Agents |-> {}]
            /\ dayStart = logged
            /\ start_date = 1
            /\ rollbackTo = [a \in Agents |-> 0]
            /\ ServiceInit
            /\ ranking_context = [a \in Agents |-> NoRanking]

SpecDetect == InitDetect /\ [][NextResume]_vars

\* the change from row r1 to row r2, in whole yuan, is outside +/-12% of r1 when
\* the rows are one calendar day apart, outside +/-(days * 10%) otherwise
OutsideBounds(r1, r2) ==
    LET days == Cal(r2.date) - Cal(r1.date)
        limit == IF days = 1 THEN 12 ELSE days * 10
        prev == r1.assets \div MoneyScale
        now == r2.assets \div MoneyScale
        change == IF now >= prev THEN now - prev ELSE prev - now
    IN  change * 100 > limit * prev

\* C32: the check of the start-up flags the second of two stored points
\* exactly when its total_assets differs from the first by more than 12% (dates
\* one day apart) or by more than gap_days * 10% (dates further apart).
C32_FlagsOutsideBounds ==
    \A a \in Agents :
        taskPc[a] = "checked" =>
            ((rollbackTo[a] = dbDaily[a][2].date)
                <=> OutsideBounds(dbDaily[a][1], dbDaily[a][2]))

\* ------------------------------------- rollback and the saved principles ----
\* The agent_principles rows of a session that reflected on each of its k
\* dates, one principle per reflection: save_agent_reflection left the rows of
\* the latest reflection active.  A reflection is named by its reflection_date.
ReflectedRows(k) ==
    [i \in 1..(2 * k) |->
        [model_name |-> IF i <= k THEN "a1" ELSE "a2",
         reflection |-> ((i - 1) % k) + 1,
         is_active |-> ((i - 1) % k) + 1 = k]]

\* run_arena finds an unfinished session of k trade dates with reflections
\* trade_dates holds the dates 1..last
StoppedSession(last) ==
    \E k \in 1..MaxPersisted :
    \E buys \in [Agents -> [1..k -> KillBuys]] :
        LET p == [a \in Agents |-> PortfolioAfter(k, k, buys[a], FALSE)]
        IN  /\ dbTrades = [a \in Agents |-> PersistedTrades(p[a])]
            /\ dbDaily = [a \in Agents |-> PersistedDaily(p[a])]
            /\ dbHoldings = [a \in Agents |-> PersistedHoldings(p[a])]
            /\ session = [current_date |-> k, status |-> "running"]
            /\ shouldStop = FALSE
            /\ schedPc = "startup"
            /\ dayIdx = 1
            /\ notDone = {}
            /\ agent_states = [a \in Agents |-> [completed |-> FALSE, error |-> "none"]]
            /\ agent_errors = [a \in Agents |-> "none"]
            /\ taskPc = [a \in Agents |-> "none"]
            /\ taskDate = [a \in Agents |-> 0]
            /\ taskError = [a \in Agents |-> "none"]
            /\ cash = [a \in Agents |-> InitialCapital]
            /\ holdings = [a \in Agents |-> <<>>]
            /\ total_assets = [a \in Agents |-> InitialCapital]
            /\ trade_history = [a \in Agents |-> <<>>]
            /\ daily_assets = [a \in Agents |-> <<>>]
            /\ st = [a \in Agents |-> NoState]
            /\ pre_state = [a \in Agents |-> NoSnapshot]
            /\ pre_exec = [a \in Agents |-> NoPreExec]
            /\ saved_trade_counts = [a \in Agents |-> 0]
            /\ saved_daily_counts = [a \in Agents |-> 0]
            /\ submitted = [d \in 1..last |-> {}]
            /\ returnedDays = [a \in Agents |-> {}]
            /\ severeDays = [a \in Agents |-> {}]
            /\ failedDays = [a \in Agents |-> {}]
            /\ stoppedMid = [a \in Agents |-> {}]
            /\ dayStart = p
            /\ start_date = 1
            /\ rollbackTo = [a \in Agents |-> 0]
            /\ ProviderInit
            /\ PoolInit
            /\ LlmInit
            /\ stock_whitelist = LoadedWhitelist
            /\ PrincipleInit(ReflectedRows(k))
            /\ ranking_context = [a \in Agents |-> NoRanking]

InitRollback == StoppedSession(NumDays)

SpecRollback == InitRollback /\ [][NextResume]_vars

\* C31: once the start-up has rolled an agent back to date T, no principle of a
\* reflection dated T or later is active for that agent.
C31_RollbackDeactivates ==
    \A a \in Agents :
        rollbackTo[a] # 0 =>
            \A i \in DOMAIN agent_principles :
                (agent_principles[i].model_name = a
                   /\ agent_principles[i].reflection >= rollbackTo[a])
                    => ~agent_principles[i].is_active

\* ------------------------------------------------- the candidate pools ----
\* Threads call preload_daily_data (the scheduler, before it submits a date)
\* and get_candidate_pool (the scheduler and every agent's _find_candidates).
MaxPublish == 3
PoolFrame ==
    UNCHANGED <<arenaVars, providerVars, principleVars, stock_whitelist, llmVars>>

InitPool ==
    /\ ArenaInit
    /\ ProviderInit
    /\ PoolInit
    /\ LlmInit
    /\ stock_whitelist \in {{}, LoadedWhitelist}
    /\ PrincipleInit(<<>>)

\* the step a call of preload_daily_data continues with once it has returned
AfterPreload(c) ==
    IF c.via = "get_candidate_pool"
    THEN [c EXCEPT !.pc = "gp_reread"]
    ELSE [c EXCEPT !.pc = "gp_check", !.via = "get_candidate_pool",
                   !.after = candidate_pool_by_date[c.date] # NoPool]

\* run_arena_parallel: self.data_provider.preload_daily_data(trade_date)
CallPreload(t, d) ==
    /\ poolCall[t].pc = "idle"
    /\ poolCall' = [poolCall EXCEPT ![t] =
                       [NoCall EXCEPT !.pc = "pl_enter", !.date = d,
                                      !.via = "preload"]]
    /\ UNCHANGED <<preloaded_daily_dates, candidate_pool_by_date, poolClock>>
    /\ PoolFrame

\* _find_candidates: self.data_provider.get_candidate_pool(state['trade_date'])
CallGetPool(t, d) ==
    /\ poolCall[t].pc = "idle"
    /\ poolCall' = [poolCall EXCEPT ![t] =
                       [NoCall EXCEPT !.pc = "gp_check", !.date = d,
                                      !.via = "get_candidate_pool",
                                      !.after = candidate_pool_by_date[d] # NoPool]]
    /\ UNCHANGED <<preloaded_daily_dates, candidate_pool_by_date, poolClock>>
    /\ PoolFrame

\* get_candidate_pool: the stored pool is returned when there is one
GetPoolCheck(t) ==
    LET c == poolCall[t]
    IN  /\ c.pc = "gp_check"
        /\ poolCall' = [poolCall EXCEPT ![t] =
               IF candidate_pool_by_date[c.date] # NoPool
               THEN [c EXCEPT !.pc = "done", !.got = candidate_pool_by_date[c.date]]
               ELSE [c EXCEPT !.pc = "pl_enter"]]
        /\ UNCHANGED <<preloaded_daily_dates, candidate_pool_by_date, poolClock>>
        /\ PoolFrame

\* preload_daily_data under _preload_lock: return on 'done' or 'in_progress',
\* else mark the date 'in_progress'
\* Variant: a date that is 'done' is preloaded again
PreloadEnter_Again(t) ==
    LET c == poolCall[t]
    IN  /\ c.pc = "pl_enter"
        /\ IF preloaded_daily_dates[c.date] = "in_progress"
           THEN /\ poolCall' = [poolCall EXCEPT ![t] =
                                   [AfterPreload(c) EXCEPT !.noop = TRUE]]
                /\ UNCHANGED preloaded_daily_dates
           ELSE /\ preloaded_daily_dates' =
                       [preloaded_daily_dates EXCEPT ![c.date] = "in_progress"]
                /\ poolCall' = [poolCall EXCEPT ![t] = [c EXCEPT !.pc = "pl_body"]]
        /\ UNCHANGED <<candidate_pool_by_date, poolClock>>
        /\ PoolFrame
PreloadEnter(t) ==
    LET c == poolCall[t]
    IN  /\ c.pc = "pl_enter"
        /\ IF preloaded_daily_dates[c.date] \in {"done", "in_progress"}
           THEN /\ poolCall' = [poolCall EXCEPT ![t] =
                                   [AfterPreload(c) EXCEPT !.noop = TRUE]]
                /\ UNCHANGED preloaded_daily_dates
           ELSE /\ preloaded_daily_dates' =
                       [preloaded_daily_dates EXCEPT ![c.date] = "in_progress"]
                /\ poolCall' = [poolCall EXCEPT ![t] = [c EXCEPT !.pc = "pl_body"]]
        /\ UNCHANGED <<candidate_pool_by_date, poolClock>>
        /\ PoolFrame

\* preload_daily_data: an empty whitelist removes the mark and returns
PreloadWhitelist(t) ==
    LET c == poolCall[t]
    IN  /\ c.pc = "pl_body"
        /\ IF stock_whitelist = {}
           THEN /\ preloaded_daily_dates' =
                       [preloaded_daily_dates EXCEPT ![c.date] = NoStatus]
                /\ poolCall' = [poolCall EXCEPT ![t] = AfterPreload(c)]
           ELSE /\ poolCall' = [poolCall EXCEPT ![t] = [c EXCEPT !.pc = "pl_publish"]]
                /\ UNCHANGED preloaded_daily_dates
        /\ UNCHANGED <<candidate_pool_by_date, poolClock>>
        /\ PoolFrame

\* preload_daily_data raises while it collects the candidates: the scheduler
\* logs it, get_candidate_pool goes to its except branch
PreloadRaises(t) ==
    LET c == poolCall[t]
    IN  /\ c.pc = "pl_publish"
        /\ poolCall' = [poolCall EXCEPT ![t] =
               IF c.via = "get_candidate_pool"
               THEN [c EXCEPT !.pc = "gp_except"]
               ELSE [c EXCEPT !.pc = "done"]]
        /\ UNCHANGED <<preloaded_daily_dates, candidate_pool_by_date, poolClock>>
        /\ PoolFrame

\* preload_daily_data under _cache_lock: the pool of the date is stored
PreloadPublish(t) ==
    LET c == poolCall[t]
    IN  /\ c.pc = "pl_publish"
        /\ poolClock < MaxPublish
        /\ poolClock' = poolClock + 1
        /\ candidate_pool_by_date' =
               [candidate_pool_by_date EXCEPT ![c.date] =
                   [source |-> "preload", generated_at |-> poolClock + 1,
                    candidates |-> stock_whitelist]]
        /\ poolCall' = [poolCall EXCEPT ![t] = [c EXCEPT !.pc = "pl_mark"]]
        /\ UNCHANGED preloaded_daily_dates
        /\ PoolFrame

\* preload_daily_data under _preload_lock: the date is marked 'done'
PreloadMark(t) ==
    LET c == poolCall[t]
    IN  /\ c.pc = "pl_mark"
        /\ preloaded_daily_dates' =
               [preloaded_daily_dates EXCEPT ![c.date] = "done"]
        /\ poolCall' = [poolCall EXCEPT ![t] = AfterPreload(c)]
        /\ UNCHANGED <<candidate_pool_by_date, poolClock>>
        /\ PoolFrame

\* get_candidate_pool's except branch: the mark is removed unless it is
\* 'done', and the fallback pool is returned
GetPoolExcept(t) ==
    LET c == poolCall[t]
    IN  /\ c.pc = "gp_except"
        /\ preloaded_daily_dates' =
               IF preloaded_daily_dates[c.date] # "done"
               THEN [preloaded_daily_dates EXCEPT ![c.date] = NoStatus]
               ELSE preloaded_daily_dates
        /\ poolCall' = [poolCall EXCEPT ![t] =
                           [c EXCEPT !.pc = "done", !.got = Fallback]]
        /\ UNCHANGED <<candidate_pool_by_date, poolClock>>
        /\ PoolFrame

\* get_candidate_pool after its preload returned: the stored pool, or the
\* fallback pool when none is stored
GetPoolReread(t) ==
    LET c == poolCall[t]
    IN  /\ c.pc = "gp_reread"
        /\ poolCall' = [poolCall EXCEPT ![t] =
               [c EXCEPT !.pc = "done",
                         !.got = IF candidate_pool_by_date[c.date] # NoPool
                                 THEN candidate_pool_by_date[c.date]
                                 ELSE Fallback]]
        /\ UNCHANGED <<preloaded_daily_dates, candidate_pool_by_date, poolClock>>
        /\ PoolFrame

NextPool ==
    \/ \E t \in Threads, d \in PoolDates : CallPreload(t, d)
    \/ \E t \in Threads, d \in PoolDates : CallGetPool(t, d)
    \/ \E t \in Threads : GetPoolCheck(t)
    \/ \E t \in Threads : PreloadEnter(t)
    \/ \E t \in Threads : PreloadWhitelist(t)
    \/ \E t \in Threads : PreloadRaises(t)
    \/ \E t \in Threads : PreloadPublish(t)
    \/ \E t \in Threads : PreloadMark(t)
    \/ \E t \in Threads : GetPoolExcept(t)
    \/ \E t \in Threads : GetPoolReread(t)

SpecPool == InitPool /\ [][NextPool]_vars

\* C34: a published pool never changes, no preload runs for a date whose pool
\* is published, and every get_candidate_pool that begins after the
\* publication returns that pool, so the readers of a date hold equal pools.
C34_PoolReadOnly ==
    /\ [][\A d \in PoolDates :
            candidate_pool_by_date[d] # NoPool
                => candidate_pool_by_date'[d] = candidate_pool_by_date[d]]_vars
    /\ [](\A t \in Threads :
            /\ poolCall[t].pc \in {"pl_body", "pl_publish"}
                   => candidate_pool_by_date[poolCall[t].date] = NoPool
            /\ (poolCall[t].pc = "done" /\ poolCall[t].after)
                   => poolCall[t].got = candidate_pool_by_date[poolCall[t].date]
            /\ \A u \in Threads :
                   (/\ poolCall[t].pc = "done" /\ poolCall[u].pc = "done"
                    /\ poolCall[t].date = poolCall[u].date
                    /\ poolCall[t].got.source = "preload"
                    /\ poolCall[u].got.source = "preload")
                       => poolCall[t].got = poolCall[u].got)

C34_Witness ==
    \E d \in PoolDates : \E t, u \in Threads :
        /\ t # u
        /\ preloaded_daily_dates[d] = "done"
        /\ poolCall[t].pc = "done" /\ poolCall[u].pc = "done"
        /\ poolCall[t].date = d /\ poolCall[u].date = d
        /\ poolCall[t].noop
        /\ poolCall[t].got = candidate_pool_by_date[d]
        /\ poolCall[u].got = candidate_pool_by_date[d]
        /\ candidate_pool_by_date[d].source = "preload"

\* ------------------------------------- the LLM nodes and the exit plan ----
\* _evaluate_holdings and _analyze_candidates call the LLM inside the same
\* retry loop; a buy decision of _analyze_candidates goes on to
\* _execute_buys and to update_callback.
max_retries == 3
base_retry_delay == 2
ConfidenceThreshold == 30      \* ai_confidence_threshold 0.30, in percent
LlmNodes == {"evaluate_holdings", "analyze_candidates"}
NotSet == "not set"            \* the literal '未设置'
NullValue == "NULL"            \* dict.get without default, stored as NULL
EmptyDict == [k \in {} |-> 0]
LlmFrame == UNCHANGED <<arenaVars, providerVars, principleVars, poolVars>>

\* dict.get(key, default)
Get(d, key, default) == IF key \in DOMAIN d THEN d[key] ELSE default

ExitPlans ==
    {[profit_target |-> "+8%", stop_loss |-> "-5%", invalidation |-> "below MA20"],
     [profit_target |-> "+15%", stop_loss |-> "-3%", invalidation |-> "volume dries up"]}

\* the buy decisions an LLM answer can carry, with and without an exit_plan
LlmAnswers ==
    {[stock_code |-> "s1", confidence |-> c, reason |-> "breakout"] :
        c \in {20, 80}}
    \cup {[stock_code |-> "s1", confidence |-> c, reason |-> "breakout",
           expected_days |-> 3, exit_plan |-> e] : c \in {20, 80}, e \in ExitPlans}

\* _analyze_candidates: normalized_decision, or Nothing for a decision below
\* the confidence threshold
NormalizedDecision(d) ==
    IF d.confidence < ConfidenceThreshold THEN Nothing
    ELSE [code |-> d.stock_code,
          action |-> "buy",
          suggested_amount |-> Get(d, "suggested_amount", 0),
          confidence |-> d.confidence,
          reason |-> Get(d, "reason", ""),
          expected_days |-> Get(d, "expected_days", 5)]

\* _execute_buys: the exit-plan fields of state['holdings'][code]
HoldingOf(decision) ==
    LET exit_plan == Get(decision, "exit_plan", EmptyDict)
    IN  [code |-> decision.code,
         profit_target |-> Get(exit_plan, "profit_target", NotSet),
         stop_loss |-> Get(exit_plan, "stop_loss", NotSet),
         invalidation |-> Get(exit_plan, "invalidation", NotSet),
         expected_days |-> Get(decision, "expected_days", 5)]

\* _execute_buys: trade_record
TradeRecord(decision) ==
    LET exit_plan == Get(decision, "exit_plan", EmptyDict)
    IN  [action |-> "buy",
         code |-> decision.code,
         reason |-> Get(decision, "reason", "AI buy"),
         profit_target |-> Get(exit_plan, "profit_target", NotSet),
         stop_loss |-> Get(exit_plan, "stop_loss", NotSet),
         invalidation |-> Get(exit_plan, "invalidation", NotSet),
         expected_days |-> Get(decision, "expected_days", 5)]

\* update_callback: trade_data
TradeData(trade) ==
    [stock_code |-> Get(trade, "code", NullValue),
     action |-> Get(trade, "action", NullValue),
     reason |-> Get(trade, "reason", "")]

\* save_trade: the columns of the arena_trades row
SavedColumns(trade_data) ==
    [stock_code |-> trade_data.stock_code,
     action |-> trade_data.action,
     reason |-> Get(trade_data, "reason", ""),
     profit_target |-> Get(trade_data, "profit_target", NullValue),
     stop_loss |-> Get(trade_data, "stop_loss", NullValue),
     invalidation |-> Get(trade_data, "invalidation", NullValue),
     expected_days |-> Get(trade_data, "expected_days", NullValue)]

\* retry_delay = base_retry_delay * (2 ** attempt)
\* Variant: the delay does not grow
RetryDelay_Fixed(attempt) == base_retry_delay
RetryDelay(attempt) == base_retry_delay * (2 ^ attempt)

\* the node is entered: for attempt in range(max_retries)
StartLlm(a, node) ==
    /\ llmCall[a].pc = "idle"
    /\ llmCall' = [llmCall EXCEPT ![a] =
                      [NoLlmCall EXCEPT !.pc = "invoke", !.node = node]]
    /\ buyFlow' = [buyFlow EXCEPT ![a] = NoBuyFlow]
    /\ LlmFrame

\* self.llm.invoke(prompt) returns and the answer is parsed: break
InvokeReturns(a, answers) ==
    LET c == llmCall[a]
        decision == IF c.node = "analyze_candidates" /\ answers # {}
                    THEN NormalizedDecision(CHOOSE d \in answers : TRUE)
                    ELSE Nothing
    IN  /\ c.pc = "invoke"
        /\ llmCall' = [llmCall EXCEPT ![a] =
               [c EXCEPT !.pc = "done", !.invokes = c.invokes + 1,
                         !.outcome = IF answers = {} THEN "empty" ELSE "ok"]]
        /\ buyFlow' = [buyFlow EXCEPT ![a] =
               [NoBuyFlow EXCEPT
                   !.answer = IF c.node = "analyze_candidates" /\ answers # {}
                              THEN CHOOSE d \in answers : TRUE ELSE Nothing,
                   !.decision = decision]]
        /\ LlmFrame

\* the try block raises: break on the balance error, sleep before the next
\* attempt, or give up after the last one
InvokeRaises(a, balance) ==
    LET c == llmCall[a]
    IN  /\ c.pc = "invoke"
        /\ llmCall' = [llmCall EXCEPT ![a] =
               IF balance
               THEN [c EXCEPT !.pc = "done", !.invokes = c.invokes + 1,
                              !.outcome = "balance"]
               ELSE IF c.attempt < max_retries - 1
               THEN [c EXCEPT !.pc = "sleep", !.invokes = c.invokes + 1,
                              !.failed = c.failed + 1]
               ELSE [c EXCEPT !.pc = "done", !.invokes = c.invokes + 1,
                              !.failed = c.failed + 1, !.outcome = "gave_up"]]
        /\ UNCHANGED buyFlow
        /\ LlmFrame

\* time.sleep(retry_delay), then the next attempt of the loop
SleepRetry(a) ==
    LET c == llmCall[a]
    IN  /\ c.pc = "sleep"
        /\ llmCall' = [llmCall EXCEPT ![a] =
               [c EXCEPT !.pc = "invoke", !.attempt = c.attempt + 1,
                         !.slept = Append(c.slept, RetryDelay(c.attempt))]]
        /\ UNCHANGED buyFlow
        /\ LlmFrame

\* _execute_buys buys the decision: holding and trade_record are written
BuyDecision(a) ==
    /\ llmCall[a].pc = "done"
    /\ buyFlow[a].decision # Nothing
    /\ buyFlow[a].holding = Nothing
    /\ buyFlow' = [buyFlow EXCEPT ![a] =
           [@ EXCEPT !.holding = HoldingOf(buyFlow[a].decision),
                     !.trade = TradeRecord(buyFlow[a].decision)]]
    /\ UNCHANGED llmCall
    /\ LlmFrame

\* update_callback hands the new trade to save_trade
SaveSavedColumns(a) ==
    /\ buyFlow[a].trade # Nothing
    /\ buyFlow[a].row = Nothing
    /\ buyFlow' = [buyFlow EXCEPT ![a] =
           [@ EXCEPT !.row = SavedColumns(TradeData(buyFlow[a].trade))]]
    /\ UNCHANGED llmCall
    /\ LlmFrame

NextLlm ==
    \/ \E a \in Agents, node \in LlmNodes : StartLlm(a, node)
    \/ \E a \in Agents, d \in LlmAnswers : InvokeReturns(a, {d})
    \/ \E a \in Agents : InvokeReturns(a, {})
    \/ \E a \in Agents, balance \in BOOLEAN : InvokeRaises(a, balance)
    \/ \E a \in Agents : SleepRetry(a)
    \/ \E a \in Agents : BuyDecision(a)
    \/ \E a \in Agents : SaveSavedColumns(a)

SpecLlm == Init /\ [][NextLlm]_vars

\* the node has failed in every attempt of its loop
GaveUp(a) == llmCall[a].pc = "done" /\ llmCall[a].outcome = "gave_up"

C37_ExitPlanStored ==
    \A a \in Agents :
        LET f == buyFlow[a]
            stored(r) == /\ r.profit_target = f.answer.exit_plan.profit_target
                         /\ r.stop_loss = f.answer.exit_plan.stop_loss
                         /\ r.invalidation = f.answer.exit_plan.invalidation
        IN  (f.answer # Nothing /\ "exit_plan" \in DOMAIN f.answer) =>
                /\ f.holding # Nothing => stored(f.holding)
                /\ f.trade # Nothing => stored(f.trade)
                /\ f.row # Nothing => stored(f.row)

\* ------------------------------------------- a run that resumes a session ----
\* run_arena: the start-up of a resumed session, then run_arena_parallel over
\* the session's trade dates, which end after the dates persisted so far
RestartDays == MaxPersisted + 1
RunRestart ==
    \/ LoopTopUntil(RestartDays)
    \/ Submit
    \/ PrimaryWait
    \/ GraceWait
    \/ ExecutorExit
    \/ CompleteSession
    \/ Stop
    \/ \E a \in Agents : TaskNext(a)
NextRestart == NextResume \/ RunRestart

\* the earlier process stopped after its last persisted date
InitRestart ==
    /\ StoppedSession(RestartDays)
    /\ session.current_date = MaxPersisted

SpecRestart == InitRestart /\ [][NextRestart]_vars

\* the agent's task of taskDate[a] has returned without an error
FinishedDay(a) == taskPc[a] = "returned" /\ taskError[a] = "none"

\* C39: when an agent's day has returned, the daily point and every trade it
\* appended on that date are in the durable log exactly once.
C39_WrittenOnce ==
    \A a \in Agents :
        FinishedDay(a) =>
            /\ \A i \in DailyOn(daily_assets[a], taskDate[a]) :
                  Cardinality({j \in DOMAIN dbDaily[a] :
                                  /\ dbDaily[a][j].date = taskDate[a]
                                  /\ dbDaily[a][j].assets =
                                         daily_assets[a][i].total_assets}) = 1
            /\ \A i \in DOMAIN trade_history[a] :
                  ("date" \in DOMAIN trade_history[a][i]
                     /\ trade_history[a][i].date = taskDate[a]) =>
                      Cardinality({j \in DOMAIN dbTrades[a] :
                                      dbTrades[a][j] = TradeRow(trade_history[a][i])}) = 1

============================================================================
